---- MODULE Spec2Model ----
(***************************************************************************)
(* State-machine model of the hiring-and-reputation engine of agentos:     *)
(*   - the payment core (X402PaymentGate, AgentEscrow, PaymentLedger,      *)
(*     PaymentManager) of src/src/marketplace/x402.py,                     *)
(*   - the catalog and matcher (MarketplaceRegistry, SkillMatcher) of      *)
(*     src/src/marketplace/__init__.py,                                    *)
(*   - the hire state machine (HiringManager, BudgetTracker), whose module *)
(*     src/marketplace/hiring.py is not among the source files and is      *)
(*     modelled from the specification,                                    *)
(*   - the learning layer (FeedbackCollector, AgentScorer,                 *)
(*     HiringOptimizer) of src/src/learning/, and the feedback tool of     *)
(*     src/src/agents/ceo_agent.py that feeds it.                          *)
(*                                                                         *)
(* Currency amounts are integers (cents); scores are fixed-point integers  *)
(* in units of 1/10000; time.time() is a logical clock that advances at    *)
(* every read; uuid-generated ids are consecutive integers.                *)
(***************************************************************************)
EXTENDS Integers, Sequences, FiniteSets, TLC

VARIABLES
    escrow_entries,  \* AgentEscrow._entries: escrow id -> EscrowEntry
    balances,        \* PaymentManager._balances: agent id -> balance
    ledger,          \* PaymentLedger._entries: sequence of LedgerEntry
    clock,           \* number of time.time() reads so far
    lastCall,        \* the last PaymentManager call: operation, argument, returned value
    thr,             \* the threads resolving escrow concurrently (pc and locals)
    listings,        \* MarketplaceRegistry._listings, in insertion order
    spent,           \* BudgetTracker: the amount reserved so far
    hire_history,    \* HiringManager.hire_history: sequence of HireResult
    hire_calls,      \* the number of hire() calls made so far
    hire_raised,     \* the number of hire() calls that raised a validation error
    lastHire,        \* the last hire() call: request, outcome, reservation attempts
    hthr,            \* the threads running hire() concurrently (pc and locals)
    feedback,        \* the rows of table feedback, in rowid order
    agent_scores,    \* the rows of table agent_scores: agent id -> cached score
    lastLearn,       \* the last call on the learning layer: arguments and returned value
    proofs,          \* the PaymentProof objects callers have created: payment id -> proof
    gate_payments,   \* X402PaymentGate._payments: the payment ids of the accepted proofs
    demo,            \* the frame of run_demo_workflow: position, locals, returned DemoResult
    lastReg,         \* the last MarketplaceRegistry call: operation, argument, returned value
    hub,             \* the global PaymentLedger of the payment hub, and the last call on it
    scoring          \* the frame of a compute_score call: position, locals, store states passed

payVars == <<escrow_entries, balances, ledger, clock, lastCall>>
hireVars == <<listings, spent, hire_history, hire_calls, hire_raised, lastHire>>
learnVars == <<feedback, agent_scores, lastLearn>>
gateVars == <<proofs, gate_payments>>
demoVars == <<demo>>
regVars == <<lastReg>>
hubVars == <<hub>>
scoreVars == <<scoring>>

(***************************************************************************)
(* Bounds of the model.                                                    *)
(***************************************************************************)
MaxEscrows == 2
NThreads == 2
MaxHires == 3
TotalBudget == 7
MaxTicks == 4
MaxTimestamp == 3
MaxJobs == 2
MaxHistory == 4
MaxPayments == 3
MaxInterleaved == 2

Threads == 1..NThreads

\* Optional values: None is the empty sequence, Some(x) the one-element sequence.
None == <<>>
Some(x) == <<x>>

\* dict.get(key, default)
get(d, k, default) == IF k \in DOMAIN d THEN d[k] ELSE default

\* d[k] = v on a dict
put(d, k, v) == [x \in DOMAIN d \cup {k} |-> IF x = k THEN v ELSE d[x]]

\* A local variable: x is evaluated once and body(x) is the value.
With(x, body(_)) == CHOOSE r \in {body(v) : v \in {x}} : TRUE

(***************************************************************************)
(* Payment core: x402.py                                                   *)
(***************************************************************************)

\* The (payer, payee, amount, task_id) arguments hold_escrow is called with.
HoldInputs ==
    { <<"ceo", "agent1", 1, "t1">>,
      <<"ceo", "agent2", 2, "t2">>,
      <<"agent1", "agent2", 1, "t1">> }

\* EscrowEntry(...) with status "held"; escrow_id is the next unused id.
EscrowEntry(id, payer, payee, amount, task_id, now) ==
    [escrow_id |-> id, payer |-> payer, payee |-> payee, amount |-> amount,
     task_id |-> task_id, status |-> "held", created_at |-> now,
     resolved_at |-> None]

\* LedgerEntry(...); timestamp defaults to time.time().
LedgerEntry(event_type, payer, payee, amount, task_id, escrow_id, payment_id, now) ==
    [event_type |-> event_type, payer |-> payer, payee |-> payee,
     amount |-> amount, task_id |-> task_id, escrow_id |-> escrow_id,
     payment_id |-> payment_id, timestamp |-> now]

\* A ledger that puts the newest entry first.
record_newest_first(led, entry) == <<entry>> \o led

\* PaymentLedger.record: append one entry.
record(led, entry) == Append(led, entry)

\* AgentEscrow.hold_payment: a new held entry under a fresh id.
hold_payment(entries, payer, payee, amount, task_id, now) ==
    LET id == Cardinality(DOMAIN entries) + 1
        entry == EscrowEntry(id, payer, payee, amount, task_id, now)
    IN [entry |-> entry, entries |-> put(entries, id, entry)]

\* A guard that forgets the status: any known entry passes.
is_present(entries, escrow_id) == escrow_id \in DOMAIN entries

\* The guard of release_on_completion / refund_on_failure
\* (entry is None or entry.status != "held" returns None): the entry exists
\* and is held.
is_held(entries, escrow_id) ==
    /\ escrow_id \in DOMAIN entries
    /\ entries[escrow_id].status = "held"

\* entry.status = status; entry.resolved_at = time.time()
resolve(entries, escrow_id, status, now) ==
    [entries EXCEPT ![escrow_id].status = status,
                    ![escrow_id].resolved_at = Some(now)]

\* AgentEscrow.release_on_completion
release_on_completion(entries, escrow_id, now) ==
    IF ~is_held(entries, escrow_id)
    THEN [ret |-> None, entries |-> entries]
    ELSE LET e2 == resolve(entries, escrow_id, "released", now)
         IN [ret |-> Some(e2[escrow_id]), entries |-> e2]

\* A refund that only refuses an entry already refunded.
refund_unless_refunded(entries, escrow_id, now) ==
    IF escrow_id \notin DOMAIN entries \/ entries[escrow_id].status = "refunded"
    THEN [ret |-> None, entries |-> entries]
    ELSE LET e2 == [entries EXCEPT ![escrow_id].status = "refunded",
                                   ![escrow_id].resolved_at = Some(now)]
         IN [ret |-> Some(e2[escrow_id]), entries |-> e2]

\* AgentEscrow.refund_on_failure
refund_on_failure(entries, escrow_id, now) ==
    IF ~is_held(entries, escrow_id)
    THEN [ret |-> None, entries |-> entries]
    ELSE LET e2 == resolve(entries, escrow_id, "refunded", now)
         IN [ret |-> Some(e2[escrow_id]), entries |-> e2]

\* sum(e.amount for e in self._entries.values() if e.status == status), over
\* the entries with the ids given.
RECURSIVE sum_status(_, _, _)
sum_status(entries, status, ids) ==
    IF ids = {} THEN 0
    ELSE LET id == CHOOSE x \in ids : TRUE
         IN (IF entries[id].status = status THEN entries[id].amount ELSE 0)
            + sum_status(entries, status, ids \ {id})

\* AgentEscrow.total_held
total_held(entries) == sum_status(entries, "held", DOMAIN entries)

\* AgentEscrow.total_released
total_released(entries) == sum_status(entries, "released", DOMAIN entries)

\* PaymentManager.get_balance
get_balance(bal, agent_id) == get(bal, agent_id, 0)

\* self._balances[agent] = self._balances.get(agent, 0.0) + amount
credit_balance(bal, agent_id, amount) ==
    put(bal, agent_id, get(bal, agent_id, 0) + amount)

\* The state of a PaymentManager: escrow, balances, ledger and the clock.
PayState(entries, bal, led, now) ==
    [entries |-> entries, balances |-> bal, ledger |-> led, clock |-> now]

\* PaymentManager.hold_escrow on state s: hold, then one escrow_hold event.
\* created_at and the ledger timestamp are two reads of the clock.
pm_hold_escrow(s, payer, payee, amount, task_id) ==
    LET h == hold_payment(s.entries, payer, payee, amount, task_id, s.clock + 1)
    IN [ret |-> Some(h.entry),
        st |-> PayState(h.entries, s.balances,
                   record(s.ledger,
                          LedgerEntry("escrow_hold", payer, payee, amount, task_id,
                                      h.entry.escrow_id, "", s.clock + 2)),
                   s.clock + 2)]

\* PaymentManager.release_escrow on state s.
pm_release_escrow(s, escrow_id) ==
    LET r == release_on_completion(s.entries, escrow_id, s.clock + 1)
    IN IF r.ret = None
       THEN [ret |-> None, st |-> s]
       ELSE LET entry == r.ret[1]
            IN [ret |-> r.ret,
                st |-> PayState(r.entries,
                           credit_balance(s.balances, entry.payee, entry.amount),
                           record(s.ledger,
                                  LedgerEntry("escrow_release", entry.payer, entry.payee,
                                              entry.amount, entry.task_id, escrow_id,
                                              "", s.clock + 2)),
                           s.clock + 2)]

\* A refund that credits the payee instead of the payer.
pm_refund_to_payee(s, escrow_id) ==
    LET r == refund_on_failure(s.entries, escrow_id, s.clock + 1)
    IN IF r.ret = None
       THEN [ret |-> None, st |-> s]
       ELSE LET entry == r.ret[1]
            IN [ret |-> r.ret,
                st |-> PayState(r.entries,
                           credit_balance(s.balances, entry.payee, entry.amount),
                           record(s.ledger,
                                  LedgerEntry("escrow_refund", entry.payer, entry.payee,
                                              entry.amount, entry.task_id, escrow_id,
                                              "", s.clock + 2)),
                           s.clock + 2)]

\* PaymentManager.refund_escrow on state s.
pm_refund_escrow(s, escrow_id) ==
    LET r == refund_on_failure(s.entries, escrow_id, s.clock + 1)
    IN IF r.ret = None
       THEN [ret |-> None, st |-> s]
       ELSE LET entry == r.ret[1]
            IN [ret |-> r.ret,
                st |-> PayState(r.entries,
                           credit_balance(s.balances, entry.payer, entry.amount),
                           record(s.ledger,
                                  LedgerEntry("escrow_refund", entry.payer, entry.payee,
                                              entry.amount, entry.task_id, escrow_id,
                                              "", s.clock + 2)),
                           s.clock + 2)]

(***************************************************************************)
(* Catalog and matcher: marketplace/__init__.py                            *)
(* A skill is a sequence of characters, so that lower() and the substring  *)
(* test of the matcher are computed.  Ratings are in 1/100 (450 = 4.5),    *)
(* match scores in 1/10000.                                                *)
(***************************************************************************)

\* str.lower() on one character and on a string
LowerChar(c) ==
    CASE c = "C" -> "c" [] c = "D" -> "d" [] c = "E" -> "e" [] c = "G" -> "g"
      [] c = "I" -> "i" [] c = "O" -> "o" [] c = "Q" -> "q" [] c = "U" -> "u"
      [] c = "A" -> "a" [] OTHER -> c

lower(str) == [i \in 1..Len(str) |-> LowerChar(str[i])]

\* needle in haystack (substring containment)
contains(haystack, needle) ==
    \E i \in 0..(Len(haystack) - Len(needle)) :
        \A j \in 1..Len(needle) : haystack[i + j] = needle[j]

\* AgentListing
AgentListing(agent_id, name, skills, price_per_unit, rating) ==
    [agent_id |-> agent_id, name |-> name, skills |-> skills,
     price_per_unit |-> price_per_unit, rating |-> rating,
     total_jobs |-> 0, completed_jobs |-> 0, failed_jobs |-> 0,
     total_earnings |-> 0, availability |-> "available"]

\* The listings registered at start-up, in registration order.
Catalog ==
    << AgentListing("coder", "Coder", << <<"c","o","d","e">>, <<"p","y">> >>, 2, 450),
       AgentListing("designer", "Designer", << <<"G","U","I">>, <<"a","r","t">> >>, 5, 480),
       AgentListing("free", "Free", << <<"q","a">> >>, 0, 300) >>

\* The position of agent_id in the registry (0 when absent)
index_of(regs, agent_id) ==
    IF \E i \in 1..Len(regs) : regs[i].agent_id = agent_id
    THEN CHOOSE i \in 1..Len(regs) : regs[i].agent_id = agent_id
    ELSE 0

\* A registration that always adds an entry, also for an id already listed.
register_always_appends(regs, listing) ==
    [ret |-> listing, listings |-> Append(regs, listing)]

\* MarketplaceRegistry.register_agent: _listings[agent_id] = listing (a key that
\* exists keeps its place in the dict's order)
register_agent(regs, listing) ==
    LET i == index_of(regs, listing.agent_id)
    IN [ret |-> listing,
        listings |-> IF i = 0 THEN Append(regs, listing) ELSE [regs EXCEPT ![i] = listing]]

\* MarketplaceRegistry.unregister_agent: _listings.pop(agent_id, None) is not None
unregister_agent(regs, agent_id) ==
    LET i == index_of(regs, agent_id)
    IN [ret |-> i # 0,
        listings |-> IF i = 0 THEN regs
                     ELSE SubSeq(regs, 1, i - 1) \o SubSeq(regs, i + 1, Len(regs))]

\* MarketplaceRegistry.get_agent
get_agent(regs, agent_id) ==
    LET i == index_of(regs, agent_id)
    IN IF i = 0 THEN None ELSE Some(regs[i])

\* MarketplaceRegistry.count
listing_count(regs) == Len(regs)

\* An increment that also counts the job as completed.
increment_jobs_completed(regs, agent_id) ==
    LET i == index_of(regs, agent_id)
    IN IF i = 0 THEN [ret |-> FALSE, listings |-> regs]
       ELSE [ret |-> TRUE,
             listings |-> [regs EXCEPT ![i].total_jobs = @ + 1, ![i].completed_jobs = @ + 2]]

\* MarketplaceRegistry.increment_jobs
increment_jobs(regs, agent_id) ==
    LET i == index_of(regs, agent_id)
    IN IF i = 0 THEN [ret |-> FALSE, listings |-> regs]
       ELSE [ret |-> TRUE, listings |-> [regs EXCEPT ![i].total_jobs = @ + 1]]

\* An outcome that is counted as completed whatever the result.
record_job_always_completed(regs, agent_id, success, earnings) ==
    LET i == index_of(regs, agent_id)
    IN IF i = 0 THEN [ret |-> FALSE, listings |-> regs]
       ELSE [ret |-> TRUE,
             listings |-> [regs EXCEPT
                 ![i].total_jobs = @ + 1,
                 ![i].completed_jobs = @ + 1,
                 ![i].total_earnings = @ + earnings]]

\* MarketplaceRegistry.record_job_completion
record_job_completion(regs, agent_id, success, earnings) ==
    LET i == index_of(regs, agent_id)
    IN IF i = 0 THEN [ret |-> FALSE, listings |-> regs]
       ELSE [ret |-> TRUE,
             listings |->
               IF success
               THEN [regs EXCEPT ![i].total_jobs = @ + 1,
                                     ![i].completed_jobs = @ + 1,
                                     ![i].total_earnings = @ + earnings]
               ELSE [regs EXCEPT ![i].total_jobs = @ + 1,
                                     ![i].failed_jobs = @ + 1]]

\* round(a / b, 4) in units of 1/10000, for a, b >= 0
RoundDiv(a, b) == (2 * a + b) \div (2 * b)

\* list.sort(key=..., reverse=True) on items [key, val]: stable, descending.
RECURSIVE InsertDesc(_, _)
InsertDesc(sorted, item) ==
    IF sorted = <<>> THEN <<item>>
    ELSE IF Head(sorted).key >= item.key
         THEN <<Head(sorted)>> \o InsertDesc(Tail(sorted), item)
         ELSE <<item>> \o sorted

RECURSIVE SortDesc(_)
SortDesc(items) ==
    IF items = <<>> THEN <<>>
    ELSE InsertDesc(SortDesc(SubSeq(items, 1, Len(items) - 1)), items[Len(items)])

\* seq[:n]
Take(seq, n) == SubSeq(seq, 1, IF Len(seq) < n THEN Len(seq) ELSE n)

\* [x for x in seq if keep(x)]
RECURSIVE FilterIdx(_, _)
FilterIdx(seq, keep) ==
    IF seq = <<>> THEN <<>>
    ELSE (IF keep[1] THEN <<Head(seq)>> ELSE <<>>)
         \o FilterIdx(Tail(seq), Tail(keep))

\* MarketplaceRegistry.set_availability: False for a status that is not one
\* of the three or an agent that is not listed.
set_availability(regs, agent_id, status) ==
    IF status \notin {"available", "busy", "offline"}
    THEN [ret |-> FALSE, listings |-> regs]
    ELSE IF index_of(regs, agent_id) = 0
    THEN [ret |-> FALSE, listings |-> regs]
    ELSE [ret |-> TRUE,
          listings |-> [regs EXCEPT ![index_of(regs, agent_id)].availability = status]]

\* MarketplaceRegistry.list_available
list_available(regs) ==
    FilterIdx(regs, [i \in 1..Len(regs) |-> regs[i].availability = "available"])

\* overlap: the number of required skills contained in some skill of the agent
overlap(listing, required_skills) ==
    Cardinality({i \in 1..Len(required_skills) :
        \E k \in 1..Len(listing.skills) :
            contains(lower(listing.skills[k]), lower(required_skills[i]))})

\* A matcher that keeps agents without any matching skill.
match_keep_zero(regs, required_skills, min_rating, max_price, top_n) ==
    LET ok == [i \in 1..Len(regs) |->
                 /\ regs[i].rating >= min_rating
                 /\ (max_price # None => regs[i].price_per_unit <= max_price[1])]
        kept == FilterIdx(regs, ok)
        n == IF required_skills = <<>> THEN 1 ELSE Len(required_skills)
        scored == [i \in 1..Len(kept) |->
                     [key |-> RoundDiv(overlap(kept[i], required_skills) * 10000, n)
                                + kept[i].rating,
                      val |-> kept[i]]]
    IN Take(SortDesc(scored), top_n)

\* A matcher that returns the scored listings in registry order.
match_unsorted(regs, required_skills, min_rating, max_price, top_n) ==
    LET ok == [i \in 1..Len(regs) |->
                 /\ regs[i].rating >= min_rating
                 /\ (max_price # None => regs[i].price_per_unit <= max_price[1])
                 /\ (required_skills # <<>> => overlap(regs[i], required_skills) > 0)]
        kept == FilterIdx(regs, ok)
        n == IF required_skills = <<>> THEN 1 ELSE Len(required_skills)
        scored == [i \in 1..Len(kept) |->
                     [key |-> IF required_skills = <<>> THEN 10000 + kept[i].rating
                              ELSE RoundDiv(overlap(kept[i], required_skills) * 10000, n)
                                     + kept[i].rating,
                      val |-> kept[i]]]
    IN Take(scored, top_n)

\* A matcher that cuts to top_n before it sorts.
match_cut_first(regs, required_skills, min_rating, max_price, top_n) ==
    SortDesc(match_unsorted(regs, required_skills, min_rating, max_price, top_n))

\* SkillMatcher.match: (listing, score) pairs as [val, key], best first.
match(regs, required_skills, min_rating, max_price, top_n) ==
    IF required_skills = <<>>
    THEN LET priced == FilterIdx(regs,
                         [i \in 1..Len(regs) |->
                            max_price # None => regs[i].price_per_unit <= max_price[1]])
             rated == FilterIdx(priced,
                         [i \in 1..Len(priced) |-> priced[i].rating >= min_rating])
             scored == [i \in 1..Len(rated) |->
                          [key |-> 10000 + rated[i].rating, val |-> rated[i]]]
         IN Take(SortDesc(scored), top_n)
    ELSE LET ok == [i \in 1..Len(regs) |->
                      /\ regs[i].rating >= min_rating
                      /\ (max_price # None => regs[i].price_per_unit <= max_price[1])
                      /\ overlap(regs[i], required_skills) > 0]
             kept == FilterIdx(regs, ok)
             scored == [i \in 1..Len(kept) |->
                          [key |-> RoundDiv(overlap(kept[i], required_skills) * 10000,
                                            Len(required_skills))
                                     + kept[i].rating,
                           val |-> kept[i]]]
         IN Take(SortDesc(scored), top_n)

(***************************************************************************)
(* The hire state machine: HiringManager and BudgetTracker.  Their module  *)
(* (src/marketplace/hiring.py) is not among the source files; hire() is    *)
(* modelled from the algorithm of the specification (section 4.3), on top  *)
(* of the registry, matcher and payment code above.                        *)
(***************************************************************************)

\* The required-skill lists and budgets hire() is called with.
RequestSkills ==
    { << <<"c","o","d","e">> >>,
      << <<"u","i">> >>,
      << <<"c","o","d","e">>, <<"u","i">> >>,
      << <<"Q","A">> >>,
      << <<"x","y","z">> >>,
      << >> }
RequestBudgets == {0, 1, 10}

HireRequest(required_skills, budget) ==
    [required_skills |-> required_skills, budget |-> budget]

HireRequests == {HireRequest(sk, b) : sk \in RequestSkills, b \in RequestBudgets}

\* The requests of the concurrent callers: coder (price 2), designer (price 5),
\* no candidate, and an invalid budget.
ConcurrentRequests ==
    { HireRequest(<< <<"c","o","d","e">> >>, 10),
      HireRequest(<< <<"u","i">> >>, 10),
      HireRequest(<< <<"x","y","z">> >>, 1),
      HireRequest(<< <<"u","i">> >>, 0) }

HireResult(task_id, status, agent_name, agreed_price, budget_remaining, error) ==
    [task_id |-> task_id, status |-> status, agent_name |-> agent_name,
     agreed_price |-> agreed_price, budget_remaining |-> budget_remaining,
     error |-> error]

\* A reservation that commits without checking the ceiling.
reserve_unchecked(used, total, amount) == [ok |-> TRUE, spent |-> used + amount]

\* A reservation that commits before it checks the ceiling.
reserve_commit_first(used, total, amount) ==
    [ok |-> used + amount <= total, spent |-> used + amount]

\* A tracker that refuses every reservation once nothing remains.
reserve_unless_exhausted(used, total, amount) ==
    IF used < total /\ used + amount <= total
    THEN [ok |-> TRUE, spent |-> used + amount]
    ELSE [ok |-> FALSE, spent |-> used]

\* BudgetTracker.reserve: one atomic check of used + amount <= total and commit.
reserve(used, total, amount) ==
    IF used + amount <= total
    THEN [ok |-> TRUE, spent |-> used + amount]
    ELSE [ok |-> FALSE, spent |-> used]

\* Step 2: the candidates of a request, best match first.
candidates(regs, request) ==
    match(regs, request.required_skills, 0, None, 5)

\* Step 3 without an optimizer: highest match score, then higher rating, then
\* lower price.
better(a, b) ==
    \/ a.key > b.key
    \/ a.key = b.key /\ a.val.rating > b.val.rating
    \/ a.key = b.key /\ a.val.rating = b.val.rating
         /\ a.val.price_per_unit < b.val.price_per_unit

select_best(cands) ==
    LET i == CHOOSE k \in 1..Len(cands) :
                 /\ \A j \in 1..Len(cands) : ~better(cands[j], cands[k])
                 /\ \A j \in 1..(k - 1) : better(cands[j], cands[k]) \/ better(cands[k], cands[j])
    IN cands[i].val

\* The state hire() works on.
HireState(pay, regs, used, history) ==
    [pay |-> pay, listings |-> regs, spent |-> used, history |-> history]

\* A step 6 that keeps only the hires that were made.
finish_hired_only(s, total, task_id, status, agent_name, agreed_price, error, reserves) ==
    LET result == HireResult(task_id, status, agent_name, agreed_price,
                             total - s.spent, error)
    IN [raised |-> FALSE, result |-> Some(result), reserves |-> reserves,
        executed |-> status \in {"completed", "failed"},
        st |-> IF status \in {"completed", "failed"}
               THEN [s EXCEPT !.history = Append(@, result)]
               ELSE s]

\* A result that reports the remainder read before this hire's reservation.
finish_stale_remainder(s, total, task_id, status, agent_name, agreed_price, error, reserves) ==
    LET result == HireResult(task_id, status, agent_name, agreed_price,
                             total - s.spent + agreed_price, error)
    IN [raised |-> FALSE, result |-> Some(result), reserves |-> reserves,
        executed |-> status \in {"completed", "failed"},
        st |-> [s EXCEPT !.history = Append(@, result)]]

\* Step 6: the result is appended to hire_history and returned.
finish(s, total, task_id, status, agent_name, agreed_price, error, reserves) ==
    LET result == HireResult(task_id, status, agent_name, agreed_price,
                             total - s.spent, error)
    IN [raised |-> FALSE, result |-> Some(result), reserves |-> reserves,
        executed |-> status \in {"completed", "failed"},
        st |-> [s EXCEPT !.history = Append(@, result)]]

\* Step 5: hold escrow, run the task, release or refund, record the job.
settle(s, total, task_id, agent, price, exec_ok) ==
    LET h == pm_hold_escrow(s.pay, "ceo", agent.agent_id, price, task_id)
        id == h.ret[1].escrow_id
        r == IF exec_ok THEN pm_release_escrow(h.st, id) ELSE pm_refund_escrow(h.st, id)
        j == record_job_completion(s.listings, agent.agent_id, exec_ok,
                                   IF exec_ok THEN price ELSE 0)
        s2 == [s EXCEPT !.pay = r.st, !.listings = j.listings]
    IN IF exec_ok
       THEN finish(s2, total, task_id, "completed", agent.name, price, None, 1)
       ELSE finish(s2, total, task_id, "failed", agent.name, price,
                   Some("execution failed"), 1)

\* Steps 2..7 of hire(): match, select, the per-request and the global budget
\* check, then escrow, execution and settlement.
admit(s, total, task_id, request, exec_ok) ==
    LET cands == candidates(s.listings, request)
    IN IF cands = <<>>
       THEN finish(s, total, task_id, "no_suitable_agents", "none", 0, None, 0)
       ELSE LET agent == select_best(cands)
                price == agent.price_per_unit
            IN IF price > request.budget
               THEN finish(s, total, task_id, "budget_exceeded", "none", 0, None, 0)
               ELSE LET rv == reserve(s.spent, total, price)
                        s1 == [s EXCEPT !.spent = rv.spent]
                    IN IF ~rv.ok
                       THEN finish(s1, total, task_id, "budget_exceeded", "none", 0,
                                   None, 1)
                       ELSE settle(s1, total, task_id, agent, price, exec_ok)

\* A hire() without step 1: any budget is admitted.
hire_unvalidated(s, total, task_id, request, exec_ok) ==
    admit(s, total, task_id, request, exec_ok)

\* HiringManager.hire(request); exec_ok is what the task execution callback
\* reports.  A non-positive budget is a validation error: hire() raises and
\* mutates nothing.
hire(s, total, task_id, request, exec_ok) ==
    IF request.budget <= 0
    THEN [raised |-> TRUE, result |-> None, reserves |-> 0, executed |-> FALSE, st |-> s]
    ELSE admit(s, total, task_id, request, exec_ok)

(***************************************************************************)
(* Learning: the feedback store (learning/feedback.py), the scorer         *)
(* (learning/scorer.py) and the hiring optimizer (learning/optimizer.py).  *)
(* quality_score is in 1/100, cost_usdc and budgets in cents, latency_ms   *)
(* in ms, scores and decay weights in 1/10000.  The feedback table is the  *)
(* sequence of its rows in rowid order; an agent_scores row keeps the five *)
(* score columns (updated_at is not kept).  The fixed-point scores are     *)
(* within 1/10000 of the floating-point ones.                              *)
(***************************************************************************)

FeedbackRecord(task_id, agent_id, outcome, quality_score, latency_ms, cost_usdc, timestamp) ==
    [task_id |-> task_id, agent_id |-> agent_id, outcome |-> outcome,
     quality_score |-> quality_score, latency_ms |-> latency_ms,
     cost_usdc |-> cost_usdc, timestamp |-> timestamp]

\* The records callers submit: two versions of (t1, cheap), one (t2, cheap)
\* and one (t1, pricey); agent "new" never gets feedback.
FeedbackInputs ==
    { FeedbackRecord("t1", "cheap", "success", 70, 100, 10, 1),
      FeedbackRecord("t1", "cheap", "failure", 20, 250, 30, 3),
      FeedbackRecord("t2", "cheap", "partial", 50, 100, 90, 1),
      FeedbackRecord("t1", "pricey", "success", 90, 100, 500, 1) }

\* INSERT into a table without the primary key: the row is added.
insert_row(rows, rec) == Append(rows, rec)

\* FeedbackCollector.record_feedback: INSERT OR REPLACE under
\* PRIMARY KEY (task_id, agent_id) deletes the row of the same key, if any,
\* and inserts the new row.
record_feedback(rows, rec) ==
    Append(SelectSeq(rows, LAMBDA r : ~(r.task_id = rec.task_id
                                         /\ r.agent_id = rec.agent_id)),
           rec)

\* The agent's rows as the table holds them, without ORDER BY.
select_agent_rows(rows, agent_id) == SelectSeq(rows, LAMBDA r : r.agent_id = agent_id)

\* FeedbackCollector.get_agent_feedback: the agent's rows, ORDER BY timestamp
\* DESC (rows of equal timestamp in rowid order).
get_agent_feedback(rows, agent_id) ==
    With(SelectSeq(rows, LAMBDA r : r.agent_id = agent_id), LAMBDA mine :
         With(SortDesc([i \in 1..Len(mine) |-> [key |-> mine[i].timestamp, val |-> mine[i]]]),
              LAMBDA sorted : [i \in 1..Len(sorted) |-> sorted[i].val]))

RECURSIVE SumSeq(_)
SumSeq(s) == IF s = <<>> THEN 0 ELSE Head(s) + SumSeq(Tail(s))

\* floor(sqrt(x)) by Newton's iteration from r
RECURSIVE Newton(_, _)
Newton(x, r) ==
    LET r2 == (r + x \div r) \div 2
    IN IF r2 >= r THEN r ELSE Newton(x, r2)

\* math.sqrt(x), rounded to the nearest integer
sqrt(x) == IF x = 0 THEN 0 ELSE (Newton(4 * x, 4 * x) + 1) \div 2

W_SUCCESS == 4000
W_QUALITY == 3000
W_RELIABILITY == 2000
W_COST == 1000
HALF_LIFE == 10

\* 0.5 ^ (k / 10) for k = 0..9
DecayTable == <<10000, 9330, 8706, 8123, 7579, 7071, 6598, 6156, 5743, 5359>>

RECURSIVE Halve(_, _)
Halve(w, times) == IF times = 0 THEN w ELSE Halve(RoundDiv(w, 2), times - 1)

\* A weight that does not decay: every position counts fully.
no_decay(position) == 10000

\* _decay_weight(position) = 0.5 ^ (position / _HALF_LIFE)
decay_weight(position) ==
    Halve(DecayTable[(position % HALF_LIFE) + 1], position \div HALF_LIFE)

\* The decay weights of the positions of a record list.
Weights(records) == [i \in 1..Len(records) |-> decay_weight(i - 1)]

\* success -> 1.0, partial -> 0.5, failure -> 0, in halves
OutcomeHalves(outcome) ==
    IF outcome = "success" THEN 2 ELSE IF outcome = "partial" THEN 1 ELSE 0

\* AgentScorer._weighted_success_rate
weighted_success_rate(records) ==
    LET w == Weights(records)
        total_weight == SumSeq(w)
        success_weight == SumSeq([i \in 1..Len(records) |->
                                    w[i] * OutcomeHalves(records[i].outcome)])
    IN IF total_weight > 0 THEN RoundDiv(5000 * success_weight, total_weight) ELSE 0

\* AgentScorer._weighted_avg_quality
weighted_avg_quality(records) ==
    LET w == Weights(records)
        total_weight == SumSeq(w)
        quality_sum == SumSeq([i \in 1..Len(records) |-> w[i] * records[i].quality_score])
    IN IF total_weight > 0 THEN RoundDiv(100 * quality_sum, total_weight) ELSE 0

\* AgentScorer._compute_reliability: max(0, 1 - 2 * stddev(quality_score)),
\* 0.5 with fewer than two records.  With n records of qualities q (in 1/100),
\* stddev = sqrt(n * sum(q^2) - sum(q)^2) / n.
compute_reliability(records) ==
    LET n == Len(records)
        s1 == SumSeq([i \in 1..n |-> records[i].quality_score])
        s2 == SumSeq([i \in 1..n |-> records[i].quality_score * records[i].quality_score])
        spread == RoundDiv(2 * sqrt(10000 * (n * s2 - s1 * s1)), n)
    IN IF n < 2 THEN 5000
       ELSE IF spread >= 10000 THEN 0 ELSE 10000 - spread

\* min(quality_score / cost_usdc, 10) / 10 of one record; free work counts 1.0
Efficiency(rec) ==
    IF rec.cost_usdc > 0
    THEN LET e == RoundDiv(1000 * rec.quality_score, rec.cost_usdc)
         IN IF e > 10000 THEN 10000 ELSE e
    ELSE 10000

\* AgentScorer._compute_cost_efficiency
compute_cost_efficiency(records) ==
    LET w == Weights(records)
        total_weight == SumSeq(w)
        efficiency_sum == SumSeq([i \in 1..Len(records) |-> w[i] * Efficiency(records[i])])
    IN IF total_weight > 0 THEN RoundDiv(efficiency_sum, total_weight) ELSE 5000

\* round(1 - exp(-n / 5), 4) for n = 1..8
ConfidenceTable == <<1813, 3297, 4512, 5507, 6321, 6988, 7534, 7981>>

AgentScore(agent_id, composite_score, success_rate, avg_quality, reliability, cost_efficiency, task_count, confidence) ==
    [agent_id |-> agent_id, composite_score |-> composite_score,
     success_rate |-> success_rate, avg_quality |-> avg_quality,
     reliability |-> reliability, cost_efficiency |-> cost_efficiency,
     task_count |-> task_count, confidence |-> confidence]

\* A save that keeps the row an agent already has (INSERT OR IGNORE).
save_unless_present(scores, score) ==
    IF score.agent_id \in DOMAIN scores THEN scores
    ELSE put(scores, score.agent_id,
             [composite_score |-> score.composite_score,
              success_rate |-> score.success_rate, avg_quality |-> score.avg_quality,
              reliability |-> score.reliability,
              cost_efficiency |-> score.cost_efficiency])

\* FeedbackCollector.save_agent_score: INSERT OR REPLACE keyed by agent_id
save_agent_score(scores, score) ==
    put(scores, score.agent_id,
        [composite_score |-> score.composite_score, success_rate |-> score.success_rate,
         avg_quality |-> score.avg_quality, reliability |-> score.reliability,
         cost_efficiency |-> score.cost_efficiency])

\* FeedbackCollector.get_agent_score
get_agent_score(scores, agent_id) ==
    IF agent_id \in DOMAIN scores THEN Some(scores[agent_id]) ELSE None

\* A scorer that counts the records of every agent as the agent's tasks.
compute_score_counting_all(rows, scores, agent_id) ==
    LET records == get_agent_feedback(rows, agent_id)
        success_rate == weighted_success_rate(records)
        avg_quality == weighted_avg_quality(records)
        reliability == compute_reliability(records)
        cost_efficiency == compute_cost_efficiency(records)
        composite == RoundDiv(W_SUCCESS * success_rate + W_QUALITY * avg_quality
                                + W_RELIABILITY * reliability + W_COST * cost_efficiency,
                              10000)
        score == AgentScore(agent_id, composite, success_rate, avg_quality, reliability,
                            cost_efficiency, Len(rows), ConfidenceTable[Len(rows)])
    IN IF records = <<>>
       THEN [ret |-> AgentScore(agent_id, 5000, 5000, 5000, 5000, 5000, Len(rows), 0),
             scores |-> scores]
       ELSE [ret |-> score, scores |-> save_agent_score(scores, score)]

\* A scorer that streams: every metric reads the table again.
fresh_records(records, rows, agent_id) == get_agent_feedback(rows, agent_id)

\* The records the metric computations of compute_score work on: the local
\* list read at the start of the call, whatever the table holds by now.
records_in_use(records, rows, agent_id) == records

\* The AgentScore compute_score builds from the metrics of its records.
assemble_score(agent_id, records, success_rate, avg_quality, reliability, cost_efficiency) ==
    AgentScore(agent_id,
               RoundDiv(W_SUCCESS * success_rate + W_QUALITY * avg_quality
                          + W_RELIABILITY * reliability + W_COST * cost_efficiency,
                        10000),
               success_rate, avg_quality, reliability, cost_efficiency,
               Len(records), ConfidenceTable[Len(records)])

\* AgentScorer.compute_score: the score it returns and the agent_scores table
\* it leaves.  An agent without records gets the neutral prior, which is
\* returned without being saved.
compute_score(rows, scores, agent_id) ==
    LET records == get_agent_feedback(rows, agent_id)
        success_rate == weighted_success_rate(records)
        avg_quality == weighted_avg_quality(records)
        reliability == compute_reliability(records)
        cost_efficiency == compute_cost_efficiency(records)
        composite == RoundDiv(W_SUCCESS * success_rate + W_QUALITY * avg_quality
                                + W_RELIABILITY * reliability + W_COST * cost_efficiency,
                              10000)
        score == AgentScore(agent_id, composite, success_rate, avg_quality, reliability,
                            cost_efficiency, Len(records), ConfidenceTable[Len(records)])
    IN IF records = <<>>
       THEN [ret |-> AgentScore(agent_id, 5000, 5000, 5000, 5000, 5000, 0, 0),
             scores |-> scores]
       ELSE [ret |-> score, scores |-> save_agent_score(scores, score)]

\* AgentScorer.compute_score on a database whose INSERT into agent_scores
\* succeeds (save_ok) or fails with sqlite3.Error: save_agent_score has a
\* try/finally that closes the connection and compute_score has no handler,
\* so the error leaves compute_score; the failed INSERT writes nothing.  An
\* agent without records is returned the prior before any save.
compute_score_storage(rows, scores, agent_id, save_ok) ==
    LET c == compute_score(rows, scores, agent_id)
    IN IF c.ret.task_count = 0 \/ save_ok
       THEN [raised |-> FALSE, ret |-> Some(c.ret), scores |-> c.scores]
       ELSE [raised |-> TRUE, ret |-> None, scores |-> scores]

\* max(0.0, min(1.0, quality_score)), in 1/100
clamp(quality_score) ==
    IF quality_score < 0 THEN 0 ELSE IF quality_score > 100 THEN 100 ELSE quality_score

\* The (task_id, agent_id, outcome, quality_score, latency_ms, cost_usdc) the
\* CEO reports after a task.
TaskFeedbackInputs ==
    { <<"t3", "cheap", "success", 150, 100, 10>>,
      <<"t1", "pricey", "failure", 20, 250, 500>> }

\* time.time() when a FeedbackRecord is built without a timestamp: later than
\* every stored timestamp.
RECURSIVE now_after(_)
now_after(rows) ==
    IF rows = <<>> THEN 1
    ELSE With(now_after(Tail(rows)),
              LAMBDA later : IF Head(rows).timestamp >= later
                             THEN Head(rows).timestamp + 1 ELSE later)

\* ceo_agent.record_task_feedback: build the record, store it, recompute the
\* agent's score; any exception becomes {"status": "error"}.
record_task_feedback(rows, scores, a, save_ok) ==
    LET rec == FeedbackRecord(a[1], a[2], a[3], clamp(a[4]), a[5], a[6], now_after(rows))
        rows2 == record_feedback(rows, rec)
        c == compute_score_storage(rows2, scores, a[2], save_ok)
    IN [ret |-> IF c.raised
                THEN [status |-> "error", updated_score |-> None, confidence |-> None]
                ELSE [status |-> "recorded",
                      updated_score |-> Some(c.ret[1].composite_score),
                      confidence |-> Some(c.ret[1].confidence)],
        rows |-> rows2,
        scores |-> c.scores]

\* The (agent_id, score) pairs of the candidates, scored in order, and the
\* agent_scores table the compute_score calls leave.
RECURSIVE score_candidates(_, _, _)
score_candidates(rows, scores, cands) ==
    IF cands = <<>> THEN [scored |-> <<>>, scores |-> scores]
    ELSE With(compute_score(rows, scores, Head(cands)), LAMBDA c :
         With(score_candidates(rows, c.scores, Tail(cands)), LAMBDA rest :
              [scored |-> <<[agent_id |-> Head(cands), score |-> c.ret]>> \o rest.scored,
               scores |-> rest.scores]))

\* The values of sorted [key, val] items.
Vals(sorted) == [i \in DOMAIN sorted |-> sorted[i].val]

\* A sampler that takes the mean of each Beta distribution instead of a
\* draw: the candidates sorted by success_rate.
sample_the_mean(scored, samples) ==
    With(SortDesc([i \in 1..Len(scored) |->
                     [key |-> scored[i].score.success_rate, val |-> scored[i]]]),
         Vals)

\* HiringOptimizer._thompson_sample: the candidates sorted by their Beta
\* samples, descending; samples[i] is the value drawn for the i-th candidate.
thompson_sample(scored, samples) ==
    With(SortDesc([i \in 1..Len(scored) |-> [key |-> samples[i], val |-> scored[i]]]),
         Vals)

\* sorted(scored, key=composite_score, reverse=True)
by_composite(scored) ==
    With(SortDesc([i \in 1..Len(scored) |->
                     [key |-> scored[i].score.composite_score, val |-> scored[i]]]),
         Vals)

\* An interval that is not clamped to [0, 1].
unclamped_interval(score) ==
    IF score.task_count = 0 THEN [lower |-> 0, upper |-> 10000]
    ELSE LET margin == sqrt(96040000 \div score.task_count)
         IN [lower |-> score.composite_score - margin,
             upper |-> score.composite_score + margin]

\* HiringOptimizer._confidence_interval: composite -/+ 1.96 * 0.5 / sqrt(n),
\* clipped to [0, 1]; (0, 1) without history.
confidence_interval(score) ==
    IF score.task_count = 0 THEN [lower |-> 0, upper |-> 10000]
    ELSE LET margin == sqrt(96040000 \div score.task_count)
             lo == score.composite_score - margin
             hi == score.composite_score + margin
         IN [lower |-> IF lo < 0 THEN 0 ELSE lo,
             upper |-> IF hi > 10000 THEN 10000 ELSE hi]

\* The budget filter of recommend_agent: a candidate with feedback stays when
\* its mean cost_usdc is within the budget, a candidate without feedback stays.
within_budget(rows, agent_id, budget) ==
    LET fb == get_agent_feedback(rows, agent_id)
    IN fb # <<>> =>
         SumSeq([i \in 1..Len(fb) |-> fb[i].cost_usdc]) <= budget * Len(fb)

AgentRecommendation(agent_id, expected_score, confidence_lower, confidence_upper, reason, is_exploration) ==
    [agent_id |-> agent_id, expected_score |-> expected_score,
     confidence_lower |-> confidence_lower, confidence_upper |-> confidence_upper,
     reason |-> reason, is_exploration |-> is_exploration]

\* The recommendation built from the head of the final list.
recommendation(best, is_exploration) ==
    With(confidence_interval(best.score), LAMBDA ci :
         AgentRecommendation(best.agent_id, best.score.composite_score, ci.lower, ci.upper,
                             << IF is_exploration THEN "exploration pick"
                                ELSE "highest rated",
                                IF best.score.task_count = 0 THEN "no prior history"
                                ELSE "prior tasks" >>,
                             is_exploration))

\* The list the budget filter leaves: the filtered list unless it is empty.
budget_filter(rows, sampled, budget) ==
    IF budget = None THEN sampled
    ELSE With(SelectSeq(sampled, LAMBDA x : within_budget(rows, x.agent_id, budget[1])),
              LAMBDA filtered : IF filtered # <<>> THEN filtered ELSE sampled)

\* HiringOptimizer.recommend_agent(candidates, budget=budget); is_exploration
\* is the outcome of rng.random() < exploration_rate and samples are the Beta
\* draws of _thompson_sample.  Returns the recommendation and the
\* agent_scores table the scoring leaves.
recommend_agent(rows, scores, cands, budget, is_exploration, samples) ==
    IF cands = <<>> THEN [ret |-> None, scores |-> scores]
    ELSE With(score_candidates(rows, scores, cands), LAMBDA sc :
         With(IF is_exploration THEN thompson_sample(sc.scored, samples)
              ELSE by_composite(sc.scored), LAMBDA sampled :
         With(budget_filter(rows, sampled, budget), LAMBDA final :
              IF final = <<>> THEN [ret |-> None, scores |-> sc.scores]
              ELSE [ret |-> Some(recommendation(final[1], is_exploration)),
                    scores |-> sc.scores])))

\* HiringOptimizer.explore_exploit(candidates): raises ValueError without
\* candidates; otherwise the head of the sampled or sorted list and whether
\* the call explored.  There is no budget filter.
explore_exploit(rows, scores, cands, is_exploration, samples) ==
    IF cands = <<>> THEN [raised |-> TRUE, ret |-> None, scores |-> scores]
    ELSE With(score_candidates(rows, scores, cands), LAMBDA sc :
         With(IF is_exploration THEN thompson_sample(sc.scored, samples)
              ELSE by_composite(sc.scored), LAMBDA sampled :
              [raised |-> FALSE,
               ret |-> Some([agent_id |-> sampled[1].agent_id,
                             is_exploration |-> is_exploration]),
               scores |-> sc.scores]))

(***************************************************************************)
(* Payment gate, payment requests and ledger queries: x402.py              *)
(***************************************************************************)

\* The PaymentConfig of the gate: PaymentConfig(price=0.01, pay_to=...).
GatePayTo == "agent2"
GatePrice == 1

\* The payment ids uuid4 hands out, in the order of creation.
PaymentIds == <<"pay_1", "pay_2", "pay_3", "pay_4">>

\* PaymentProof(payer, payee, amount): a new proof is not verified.
PaymentProof(payment_id, payer, payee, amount) ==
    [payment_id |-> payment_id, payer |-> payer, payee |-> payee,
     amount |-> amount, verified |-> FALSE]

\* The (payer, payee, amount) a caller builds a proof from.
ProofInputs ==
    { <<"ceo", "agent2", 1>>, <<"ceo", "agent1", 1>>, <<"ceo", "agent2", 0>> }

\* The state of the gate: the proof objects and the list _payments of
\* references to them.
GateState(objs, payments) == [proofs |-> objs, payments |-> payments]

\* A gate that does not look at the payee of the proof.
gate_accepts_any_payee(g, payment_id) ==
    LET proof == g.proofs[payment_id]
    IN IF proof.amount < GatePrice
       THEN [ok |-> FALSE, gate |-> g]
       ELSE [ok |-> TRUE,
             gate |-> GateState([g.proofs EXCEPT ![payment_id].verified = TRUE],
                                Append(g.payments, payment_id))]

\* X402PaymentGate.verify_payment on the proof with this payment id.
gate_verify_payment(g, payment_id) ==
    LET proof == g.proofs[payment_id]
    IN IF GatePayTo # "" /\ proof.payee # GatePayTo
       THEN [ok |-> FALSE, gate |-> g]
       ELSE IF proof.amount < GatePrice
       THEN [ok |-> FALSE, gate |-> g]
       ELSE [ok |-> TRUE,
             gate |-> GateState([g.proofs EXCEPT ![payment_id].verified = TRUE],
                                Append(g.payments, payment_id))]

\* X402PaymentGate.total_collected
RECURSIVE total_collected(_)
total_collected(g) ==
    IF g.payments = <<>> THEN 0
    ELSE LET proof == g.proofs[Head(g.payments)]
         IN (IF proof.verified THEN proof.amount ELSE 0)
            + total_collected(GateState(g.proofs, Tail(g.payments)))

\* PaymentManager.create_payment_request on state s: the 402 body of the gate
\* with the price overridden, and one payment_request event.  The amount of
\* the accepts entry is in millionths, an amount here is in hundredths.
pm_create_payment_request(s, resource, amount, payee) ==
    [ret |-> [error |-> "Payment Required", maxAmountRequired |-> amount * 10000,
              resource |-> resource, payTo |-> GatePayTo],
     st |-> PayState(s.entries, s.balances,
                record(s.ledger,
                       LedgerEntry("payment_request", "", payee, amount, "", 0, "",
                                   s.clock + 1)),
                s.clock + 1)]

\* PaymentManager.verify_payment on state s and gate g: the verdict of the
\* gate, one payment_verified / payment_rejected event, and the credit of the
\* payee when the proof is accepted.
pm_verify_payment(s, g, payment_id) ==
    LET v == gate_verify_payment(g, payment_id)
        proof == g.proofs[payment_id]
        led == record(s.ledger,
                      LedgerEntry(IF v.ok THEN "payment_verified" ELSE "payment_rejected",
                                  proof.payer, proof.payee, proof.amount, "", 0,
                                  payment_id, s.clock + 1))
    IN [ret |-> v.ok,
        gate |-> v.gate,
        st |-> PayState(s.entries,
                   IF v.ok THEN credit_balance(s.balances, proof.payee, proof.amount)
                   ELSE s.balances,
                   led, s.clock + 1)]

\* The filters of PaymentLedger.get_entries: None or a value.
EntryFilters ==
    { <<None, None, None>>, <<Some("escrow_release"), Some("agent1"), Some("t1")>> }

\* PaymentLedger.get_entries
get_entries(led, event_type, agent_id, task_id) ==
    LET keep(e) ==
          /\ event_type = None \/ e.event_type = event_type[1]
          /\ agent_id = None \/ e.payer = agent_id[1] \/ e.payee = agent_id[1]
          /\ task_id = None \/ e.task_id = task_id[1]
    IN FilterIdx(led, [i \in 1..Len(led) |-> keep(led[i])])

\* PaymentLedger.get_all
get_all(led) == led

\* PaymentLedger.count
count(led) == Len(led)

\* PaymentLedger.total_volume
total_volume(led) == SumSeq([i \in 1..Len(led) |-> led[i].amount])

\* PaymentLedger.clear
clear(led) == <<>>

(***************************************************************************)
(* The demo workflow: demo/cli.py                                          *)
(* Prices and budgets are in cents, ratings in 1/100, scores in 1/1000.    *)
(***************************************************************************)

\* MockExternalAgent
MockExternalAgent(name, skills, price_per_call, rating, tasks_completed) ==
    [name |-> name, skills |-> skills, price_per_call |-> price_per_call,
     rating |-> rating, tasks_completed |-> tasks_completed]

\* The skill names of the demo, as character sequences
design == <<"d","e","s","i","g","n">>
ui == <<"u","i">>
ux == <<"u","x">>
mockup == <<"m","o","c","k","u","p">>
landing_page == <<"l","a","n","d","i","n","g","-","p","a","g","e">>
branding == <<"b","r","a","n","d","i","n","g">>
wireframe == <<"w","i","r","e","f","r","a","m","e">>
layout == <<"l","a","y","o","u","t">>
code == <<"c","o","d","e">>
frontend == <<"f","r","o","n","t","e","n","d">>
backend == <<"b","a","c","k","e","n","d">>
api == <<"a","p","i">>
deployment == <<"d","e","p","l","o","y","m","e","n","t">>

\* DEMO_AGENTS
DEMO_AGENTS ==
    << MockExternalAgent("DesignStudio AI", <<design, ui, ux, mockup, landing_page, branding>>, 15, 490, 342),
       MockExternalAgent("PixelForge", <<design, wireframe, layout, landing_page>>, 5, 420, 89),
       MockExternalAgent("CodeCraft Agent", <<code, frontend, backend, api, deployment>>, 10, 460, 217) >>

\* DemoConfig
DemoConfig(budget, required_skills) == [budget |-> budget, required_skills |-> required_skills]

\* {s.lower() for s in skills}
lower_set(skills) == {lower(skills[i]) : i \in 1..Len(skills)}

\* discover_agents: the agents sharing at least one lowered skill with the request
discover_agents(agents, required_skills) ==
    FilterIdx(agents, [i \in 1..Len(agents) |->
        lower_set(agents[i].skills) \cap lower_set(required_skills) # {}])

\* evaluate_agent: composite = 0.60 match + 0.25 rating/5 + 0.15 min(tasks/500, 1)
evaluate_agent(agent, required_skills) ==
    LET n == Cardinality(lower_set(required_skills))
        o == Cardinality(lower_set(agent.skills) \cap lower_set(required_skills))
        t == IF agent.tasks_completed < 500 THEN agent.tasks_completed ELSE 500
    IN [agent_name |-> agent.name,
        composite_score |-> IF n = 0
                            THEN RoundDiv(6000 + 5 * agent.rating + 3 * t, 10)
                            ELSE RoundDiv(6000 * o + 5 * n * agent.rating + 3 * n * t, 10 * n),
        price |-> agent.price_per_call,
        approved |-> IF n = 0 THEN TRUE ELSE 10 * o >= 3 * n]

\* max(seq, key=composite_score): the first element with the largest key
max_by_composite(seq) ==
    seq[CHOOSE i \in 1..Len(seq) :
            /\ \A j \in 1..Len(seq) : seq[j].composite_score <= seq[i].composite_score
            /\ \A j \in 1..(i - 1) : seq[j].composite_score < seq[i].composite_score]

\* The overall best approved evaluation, given up when it is not affordable.
select_overall_best(evaluations, budget_remaining) ==
    LET approved == FilterIdx(evaluations, [i \in 1..Len(evaluations) |-> evaluations[i].approved])
    IN IF approved = <<>> THEN None
       ELSE IF max_by_composite(approved).price <= budget_remaining
            THEN Some(max_by_composite(approved))
            ELSE None

\* The best approved evaluation, whatever it costs.
select_ignoring_budget(evaluations, budget_remaining) ==
    LET approved == FilterIdx(evaluations, [i \in 1..Len(evaluations) |-> evaluations[i].approved])
    IN IF approved = <<>> THEN None ELSE Some(max_by_composite(approved))

\* select_best_agent
select_best_agent(evaluations, budget_remaining) ==
    LET affordable == FilterIdx(evaluations, [i \in 1..Len(evaluations) |->
                          evaluations[i].approved /\ evaluations[i].price <= budget_remaining])
    IN IF affordable = <<>> THEN None ELSE Some(max_by_composite(affordable))

\* DemoResult
DemoResult(agent_hired, capability_score, price_paid, budget_allocated, budget_remaining, steps, status) ==
    [agent_hired |-> agent_hired, capability_score |-> capability_score,
     price_paid |-> price_paid, budget_allocated |-> budget_allocated,
     budget_remaining |-> budget_remaining, steps |-> steps, status |-> status]

\* run_demo_workflow up to its first step: the locals after the assignments
demo_start(config) ==
    [pc |-> "discovery", config |-> config, budget_remaining |-> config.budget,
     steps |-> <<>>, candidates |-> <<>>, evaluations |-> <<>>, best |-> None,
     result |-> None]

\* Step 1: Discovery
demo_discovery(f) ==
    [f EXCEPT !.pc = "evaluation",
              !.candidates = discover_agents(DEMO_AGENTS, f.config.required_skills),
              !.steps = Append(f.steps, "Discovery")]

\* Step 2: Evaluation
demo_evaluation(f) ==
    [f EXCEPT !.pc = "hiring",
              !.evaluations = [i \in 1..Len(f.candidates) |->
                                  evaluate_agent(f.candidates[i], f.config.required_skills)],
              !.steps = Append(f.steps, "Evaluation")]

\* Step 3: Hiring decision (returns at once when no agent is selected)
demo_hiring(f) ==
    LET best == select_best_agent(f.evaluations, f.budget_remaining)
    IN IF best = None
       THEN [f EXCEPT !.pc = "done",
                      !.result = Some(DemoResult("none", 0, 0, f.config.budget,
                                                 f.budget_remaining, f.steps,
                                                 "no_suitable_agents"))]
       ELSE [f EXCEPT !.pc = "execution", !.best = best,
                      !.steps = Append(f.steps, "Hiring")]

\* Step 4: Task execution (simulate_task_execution always completes)
demo_execution(f) ==
    [f EXCEPT !.pc = "payment", !.steps = Append(f.steps, "Execution")]

\* Step 5: Payment and the returned DemoResult
demo_payment(f) ==
    LET left == f.budget_remaining - f.best[1].price
        steps == Append(f.steps, "Payment")
    IN [f EXCEPT !.pc = "done", !.budget_remaining = left, !.steps = steps,
                 !.result = Some(DemoResult(f.best[1].agent_name, f.best[1].composite_score,
                                            f.best[1].price, f.config.budget, left,
                                            steps, "completed"))]

(***************************************************************************)
(* Payment hub: mcp_servers/payment_hub.py and mcp_server.py               *)
(* One global PaymentLedger holds the per-task budgets and the list of     *)
(* transactions; the payment-hub tool and the handler of the standalone    *)
(* server both write to it.                                                *)
(***************************************************************************)

\* Budget(task_id, allocated): spent defaults to 0.
Budget(task_id, allocated) == [task_id |-> task_id, allocated |-> allocated, spent |-> 0]

\* Budget.remaining
remaining_of(budget) == budget.allocated - budget.spent

\* PaymentRecord(...) as record_payment builds it: tx_id from the counter.
PaymentRecord(tx_counter, from_agent, to_agent, amount_usdc, task_id) ==
    [tx_id |-> tx_counter, from_agent |-> from_agent, to_agent |-> to_agent,
     amount_usdc |-> amount_usdc, task_id |-> task_id, status |-> "completed"]

\* The state of the global ledger: _budgets and _transactions (_tx_counter is
\* the number of transactions).
HubState(budgets, transactions) == [budgets |-> budgets, transactions |-> transactions]

\* PaymentLedger.allocate_budget: a new Budget replaces the one of the task.
allocate_budget(h, task_id, amount) ==
    HubState(put(h.budgets, task_id, Budget(task_id, amount)), h.transactions)

\* PaymentLedger.get_budget
get_budget(h, task_id) ==
    IF task_id \in DOMAIN h.budgets THEN Some(h.budgets[task_id]) ELSE None

\* PaymentLedger.record_payment: append the record; deduct from the budget of
\* the task when there is one.
record_payment(h, from_agent, to_agent, amount, task_id) ==
    LET rec == PaymentRecord(Len(h.transactions) + 1, from_agent, to_agent, amount, task_id)
    IN [ret |-> rec,
        hub |-> HubState(IF task_id \in DOMAIN h.budgets
                         THEN [h.budgets EXCEPT ![task_id].spent = @ + amount]
                         ELSE h.budgets,
                         Append(h.transactions, rec))]

\* call_tool("pay_agent") of the payment-hub server: refuse without budget or
\* beyond the remaining budget, else record the payment of "ceo".
tool_pay_agent(h, to_agent, amount, task_id) ==
    IF get_budget(h, task_id) = None
    THEN [ret |-> "error: no budget allocated", hub |-> h]
    ELSE IF amount > remaining_of(get_budget(h, task_id)[1])
    THEN [ret |-> "error: insufficient budget", hub |-> h]
    ELSE [ret |-> "completed",
          hub |-> record_payment(h, "ceo", to_agent, amount, task_id).hub]

\* _handle_pay_agent of the standalone server: record the payment of
\* "mcp_client".
handle_pay_agent(h, to_agent, amount, task_id) ==
    [ret |-> "completed",
     hub |-> record_payment(h, "mcp_client", to_agent, amount, task_id).hub]

(***************************************************************************)
(* State, initial state and the callers' actions.                          *)
(***************************************************************************)

CurPay == PayState(escrow_entries, balances, ledger, clock)

SetPay(s) ==
    /\ escrow_entries' = s.entries
    /\ balances' = s.balances
    /\ ledger' = s.ledger
    /\ clock' = s.clock

\* The escrow ids a caller may pass: every id ever issued and ids never issued.
EscrowIds == 0..(MaxEscrows + 1)

InitPay ==
    /\ escrow_entries = <<>>
    /\ balances = <<>>
    /\ ledger = <<>>
    /\ clock = 0
    /\ lastCall = [op |-> "init", arg |-> 0, ret |-> None]

InitThr ==
    thr = [t \in Threads |-> [pc |-> "idle", op |-> "none", id |-> 0, ret |-> None, bal |-> 0]]

\* A thread that is not inside hire().
IdleHire ==
    [pc |-> "idle", request |-> HireRequest(<<>>, 0), task_id |-> 0, agent |-> None,
     escrow_id |-> 0, result |-> None, raised |-> FALSE, reserves |-> 0]

CurHire == HireState(CurPay, listings, spent, hire_history)

SetHire(s) ==
    /\ SetPay(s.pay)
    /\ listings' = s.listings
    /\ spent' = s.spent
    /\ hire_history' = s.history

\* A registry holding the catalog, a fresh BudgetTracker(TotalBudget) and a
\* HiringManager without history.
InitHire ==
    /\ listings = Catalog
    /\ spent = 0
    /\ hire_history = <<>>
    /\ hire_calls = 0
    /\ hire_raised = 0
    /\ lastHire = [request |-> HireRequest(<<>>, 0), raised |-> FALSE,
                   result |-> None, reserves |-> 0, exec |-> "not_run"]
    /\ hthr = [t \in Threads |-> IdleHire]

\* A gate that has seen no proof.
InitGate ==
    /\ proofs = <<>>
    /\ gate_payments = <<>>

\* No demo run has started.
InitDemo ==
    demo = [pc |-> "idle", config |-> DemoConfig(0, <<>>), budget_remaining |-> 0,
            steps |-> <<>>, candidates |-> <<>>, evaluations |-> <<>>, best |-> None,
            result |-> None]

\* An empty global ledger.
InitHub ==
    hub = [budgets |-> <<>>, transactions |-> <<>>,
           last |-> [op |-> "none", task_id |-> "", amount |-> 0, budget |-> None,
                     ret |-> ""]]

\* No compute_score call is running.
IdleScoring ==
    [pc |-> "idle", agent_id |-> "", records |-> <<>>, success_rate |-> 0,
     avg_quality |-> 0, reliability |-> 0, cost_efficiency |-> 0, seen |-> <<>>,
     ret |-> None]

InitScoring == scoring = IdleScoring

\* No registry call has been made.
InitReg ==
    lastReg = [op |-> "none", arg |-> [agent_id |-> "", success |-> FALSE, earnings |-> 0],
               ret |-> None]

\* An empty feedback database.
InitLearn ==
    /\ feedback = <<>>
    /\ agent_scores = <<>>
    /\ lastLearn = [op |-> "none", arg |-> None, budget |-> None, rate |-> 0,
                    replaced |-> FALSE, ret |-> None, raised |-> FALSE,
                    storage |-> "ok"]

\* A caller calls PaymentManager.hold_escrow.
HoldEscrow ==
    /\ Cardinality(DOMAIN escrow_entries) < MaxEscrows
    /\ \E a \in HoldInputs :
         LET r == pm_hold_escrow(CurPay, a[1], a[2], a[3], a[4])
         IN /\ SetPay(r.st)
            /\ lastCall' = [op |-> "hold_escrow", arg |-> r.ret[1].escrow_id, ret |-> r.ret]
    /\ UNCHANGED <<thr, hireVars, hthr, learnVars, gateVars, demoVars, regVars, hubVars, scoreVars>>

\* A caller calls PaymentManager.release_escrow.
ReleaseEscrow ==
    /\ \E id \in EscrowIds :
         LET r == pm_release_escrow(CurPay, id)
         IN /\ SetPay(r.st)
            /\ lastCall' = [op |-> "release_escrow", arg |-> id, ret |-> r.ret]
    /\ UNCHANGED <<thr, hireVars, hthr, learnVars, gateVars, demoVars, regVars, hubVars, scoreVars>>

\* A caller calls PaymentManager.refund_escrow.
RefundEscrow ==
    /\ \E id \in EscrowIds :
         LET r == pm_refund_escrow(CurPay, id)
         IN /\ SetPay(r.st)
            /\ lastCall' = [op |-> "refund_escrow", arg |-> id, ret |-> r.ret]
    /\ UNCHANGED <<thr, hireVars, hthr, learnVars, gateVars, demoVars, regVars, hubVars, scoreVars>>

vars == <<payVars, thr, hireVars, hthr, learnVars, gateVars, demoVars, regVars, hubVars, scoreVars>>

NextPay == HoldEscrow \/ ReleaseEscrow \/ RefundEscrow

\* The state after construction of every component.
Init ==
    /\ InitPay /\ InitThr /\ InitHire /\ InitLearn /\ InitGate /\ InitDemo /\ InitReg
    /\ InitHub /\ InitScoring

\* Sequential use of one PaymentManager.
SpecPay == Init /\ [][NextPay]_vars

(***************************************************************************)
(* The whole PaymentManager: payment requests, proofs, escrow and the      *)
(* queries of the ledger.                                                  *)
(***************************************************************************)

CurGate == GateState(proofs, gate_payments)

\* A caller calls PaymentManager.create_payment_request.
CreatePaymentRequest ==
    /\ LET r == pm_create_payment_request(CurPay, "/test", 1, "agent1")
       IN /\ SetPay(r.st)
          /\ lastCall' = [op |-> "create_payment_request", arg |-> "/test",
                          ret |-> Some(r.ret)]
    /\ UNCHANGED <<thr, hireVars, hthr, learnVars, gateVars, demoVars, regVars, hubVars, scoreVars>>

\* A caller builds a new proof, or takes one it has submitted before, and calls
\* PaymentManager.verify_payment.
VerifyPayment ==
    /\ \E fresh \in BOOLEAN :
       \E c \in IF fresh THEN ProofInputs ELSE DOMAIN proofs :
         LET n == Cardinality(DOMAIN proofs)
             id == IF fresh THEN PaymentIds[n + 1] ELSE c
             g == IF fresh
                  THEN GateState(put(proofs, id, PaymentProof(id, c[1], c[2], c[3])),
                                 gate_payments)
                  ELSE CurGate
             r == pm_verify_payment(CurPay, g, id)
         IN /\ fresh => n < Len(PaymentIds)
            /\ SetPay(r.st)
            /\ proofs' = r.gate.proofs
            /\ gate_payments' = r.gate.payments
            /\ lastCall' = [op |-> "verify_payment", arg |-> id, ret |-> Some(r.ret)]
    /\ UNCHANGED <<thr, hireVars, hthr, learnVars, demoVars, regVars, hubVars, scoreVars>>

\* A caller queries the ledger: get_entries, get_all, count or total_volume.
LedgerQuery ==
    /\ \E q \in {"get_entries", "get_all", "count", "total_volume"}, f \in EntryFilters :
         lastCall' =
           [op |-> q,
            arg |-> IF q = "get_entries" THEN f ELSE None,
            ret |-> CASE q = "get_entries" -> Some(get_entries(ledger, f[1], f[2], f[3]))
                      [] q = "get_all" -> Some(get_all(ledger))
                      [] q = "count" -> Some(count(ledger))
                      [] OTHER -> Some(total_volume(ledger))]
    /\ UNCHANGED <<escrow_entries, balances, ledger, clock, thr, hireVars, hthr,
                   learnVars, gateVars, demoVars, regVars, hubVars, scoreVars>>

\* A caller calls PaymentLedger.clear.
ClearLedger ==
    /\ ledger' = clear(ledger)
    /\ lastCall' = [op |-> "clear", arg |-> None, ret |-> None]
    /\ UNCHANGED <<escrow_entries, balances, clock, thr, hireVars, hthr,
                   learnVars, gateVars, demoVars, regVars, hubVars, scoreVars>>

\* The calls that read the clock stop after MaxTicks reads.
NextLedger ==
    \/ /\ clock < MaxTicks
       /\ \/ HoldEscrow \/ ReleaseEscrow \/ RefundEscrow
          \/ CreatePaymentRequest \/ VerifyPayment
    \/ LedgerQuery
    \/ ClearLedger

SpecLedger == Init /\ [][NextLedger]_vars

(***************************************************************************)
(* Concurrent callers of release_escrow / refund_escrow.  The methods take *)
(* no lock, so a thread switch can fall between any two statements: the    *)
(* status check, the status write, the read and the write of the balance,  *)
(* and the ledger append are separate steps.                               *)
(***************************************************************************)

\* The status a call writes, the account it credits and the event it records.
TerminalStatus(op) == IF op = "release_escrow" THEN "released" ELSE "refunded"
CreditedParty(op, entry) == IF op = "release_escrow" THEN entry.payee ELSE entry.payer
EventType(op) == IF op = "release_escrow" THEN "escrow_release" ELSE "escrow_refund"

\* entry = self._entries.get(escrow_id); if entry is None or entry.status != "held": return None
ThrCheck(t) ==
    /\ thr[t].pc = "idle"
    /\ \E op \in {"release_escrow", "refund_escrow"}, id \in EscrowIds :
         thr' = [thr EXCEPT ![t] =
                   IF is_held(escrow_entries, id)
                   THEN [pc |-> "checked", op |-> op, id |-> id, ret |-> None, bal |-> 0]
                   ELSE [pc |-> "done", op |-> op, id |-> id, ret |-> None, bal |-> 0]]
    /\ UNCHANGED <<payVars, hireVars, hthr, learnVars, gateVars, demoVars, regVars, hubVars, scoreVars>>

\* entry.status = "released" | "refunded"; entry.resolved_at = time.time(); return entry
ThrSetStatus(t) ==
    /\ thr[t].pc = "checked"
    /\ escrow_entries' = resolve(escrow_entries, thr[t].id, TerminalStatus(thr[t].op), clock + 1)
    /\ clock' = clock + 1
    /\ thr' = [thr EXCEPT ![t].pc = "resolved"]
    /\ UNCHANGED <<balances, ledger, lastCall, hireVars, hthr, learnVars, gateVars, demoVars, regVars, hubVars, scoreVars>>

\* self._balances.get(party, 0.0): the read half of the balance update
ThrReadBalance(t) ==
    /\ thr[t].pc = "resolved"
    /\ thr' = [thr EXCEPT ![t].pc = "read",
                          ![t].bal = get_balance(balances,
                                         CreditedParty(thr[t].op, escrow_entries[thr[t].id]))]
    /\ UNCHANGED <<payVars, hireVars, hthr, learnVars, gateVars, demoVars, regVars, hubVars, scoreVars>>

\* self._balances[party] = <value read> + entry.amount: the write half
ThrWriteBalance(t) ==
    /\ thr[t].pc = "read"
    /\ LET entry == escrow_entries[thr[t].id]
       IN balances' = put(balances, CreditedParty(thr[t].op, entry),
                          thr[t].bal + entry.amount)
    /\ thr' = [thr EXCEPT ![t].pc = "credited"]
    /\ UNCHANGED <<escrow_entries, ledger, clock, lastCall, hireVars, hthr, learnVars, gateVars, demoVars, regVars, hubVars, scoreVars>>

\* self._ledger.record(event_type=...); return entry
ThrRecord(t) ==
    /\ thr[t].pc = "credited"
    /\ LET entry == escrow_entries[thr[t].id]
       IN /\ ledger' = record(ledger,
                           LedgerEntry(EventType(thr[t].op), entry.payer, entry.payee,
                                       entry.amount, entry.task_id, thr[t].id, "",
                                       clock + 1))
          /\ thr' = [thr EXCEPT ![t].pc = "done", ![t].ret = Some(entry)]
    /\ clock' = clock + 1
    /\ UNCHANGED <<escrow_entries, balances, lastCall, hireVars, hthr, learnVars, gateVars, demoVars, regVars, hubVars, scoreVars>>

NextPayConc ==
    \/ HoldEscrow
    \/ \E t \in Threads :
         ThrCheck(t) \/ ThrSetStatus(t) \/ ThrReadBalance(t) \/ ThrWriteBalance(t)
           \/ ThrRecord(t)

\* Threads calling release_escrow / refund_escrow on one PaymentManager.
SpecPayConc == Init /\ [][NextPayConc]_vars

(***************************************************************************)
(* Callers of hire(): one at a time (SpecHire), and in parallel threads    *)
(* (SpecHireConc) that can be switched between the states of the hire      *)
(* state machine: received, matched, budget_checked, escrowed, settled.    *)
(***************************************************************************)

\* A caller calls HiringManager.hire(request) and the call runs to completion.
Hire ==
    /\ hire_calls < MaxHires
    /\ \E request \in HireRequests, exec_ok \in BOOLEAN :
         LET r == hire(CurHire, TotalBudget, hire_calls + 1, request, exec_ok)
         IN /\ SetHire(r.st)
            /\ lastHire' = [request |-> request, raised |-> r.raised,
                            result |-> r.result, reserves |-> r.reserves,
                            exec |-> IF ~r.executed THEN "not_run"
                                     ELSE IF exec_ok THEN "success" ELSE "failure"]
            /\ hire_raised' = hire_raised + (IF r.raised THEN 1 ELSE 0)
    /\ hire_calls' = hire_calls + 1
    /\ UNCHANGED <<lastCall, thr, hthr, learnVars, gateVars, demoVars, regVars, hubVars, scoreVars>>

NextHire == Hire

\* One HiringManager called sequentially.
SpecHire == Init /\ [][NextHire]_vars

\* What a thread keeps of the outcome of its call.
Returned(h, r) ==
    [h EXCEPT !.pc = "done", !.result = r.result, !.raised = r.raised,
              !.reserves = r.reserves]

\* Steps 1-3: validation, matching and selection.
HStart(t) ==
    /\ hthr[t].pc = "idle"
    /\ hire_calls' = hire_calls + 1
    /\ \E request \in ConcurrentRequests :
         LET h == [IdleHire EXCEPT !.request = request, !.task_id = hire_calls + 1]
             cands == candidates(listings, request)
         IN IF request.budget <= 0
            THEN /\ hthr' = [hthr EXCEPT ![t] = [h EXCEPT !.pc = "done", !.raised = TRUE]]
                 /\ hire_raised' = hire_raised + 1
                 /\ UNCHANGED <<payVars, listings, spent, hire_history>>
            ELSE IF cands = <<>>
            THEN LET r == finish(CurHire, TotalBudget, h.task_id, "no_suitable_agents",
                                 "none", 0, None, 0)
                 IN /\ SetHire(r.st)
                    /\ hthr' = [hthr EXCEPT ![t] = Returned(h, r)]
                    /\ UNCHANGED <<lastCall, hire_raised>>
            ELSE /\ hthr' = [hthr EXCEPT ![t] =
                               [h EXCEPT !.pc = "matched", !.agent = Some(select_best(cands))]]
                 /\ UNCHANGED <<payVars, listings, spent, hire_history, hire_raised>>
    /\ UNCHANGED <<thr, lastHire, learnVars, gateVars, demoVars, regVars, hubVars, scoreVars>>

\* Step 4: the per-request ceiling, then BudgetTracker.reserve.
HBudget(t) ==
    /\ hthr[t].pc = "matched"
    /\ LET h == hthr[t]
           price == h.agent[1].price_per_unit
           rv == reserve(spent, TotalBudget, price)
       IN IF price > h.request.budget
          THEN LET r == finish(CurHire, TotalBudget, h.task_id, "budget_exceeded", "none",
                               0, None, 0)
               IN /\ SetHire(r.st)
                  /\ hthr' = [hthr EXCEPT ![t] = Returned(h, r)]
          ELSE IF ~rv.ok
          THEN LET r == finish([CurHire EXCEPT !.spent = rv.spent], TotalBudget, h.task_id,
                               "budget_exceeded", "none", 0, None, 1)
               IN /\ SetHire(r.st)
                  /\ hthr' = [hthr EXCEPT ![t] = Returned(h, r)]
          ELSE /\ spent' = rv.spent
               /\ hthr' = [hthr EXCEPT ![t].pc = "budget_checked", ![t].reserves = 1]
               /\ UNCHANGED <<escrow_entries, balances, ledger, clock, listings,
                              hire_history>>
    /\ UNCHANGED <<lastCall, thr, hire_calls, hire_raised, lastHire, learnVars, gateVars, demoVars, regVars, hubVars, scoreVars>>

\* Step 5, first half: hold escrow for the agreed price.
HEscrow(t) ==
    /\ hthr[t].pc = "budget_checked"
    /\ LET h == hthr[t]
           r == pm_hold_escrow(CurPay, "ceo", h.agent[1].agent_id,
                               h.agent[1].price_per_unit, h.task_id)
       IN /\ SetPay(r.st)
          /\ hthr' = [hthr EXCEPT ![t].pc = "escrowed",
                                  ![t].escrow_id = r.ret[1].escrow_id]
    /\ UNCHANGED <<lastCall, thr, hireVars, learnVars, gateVars, demoVars, regVars, hubVars, scoreVars>>

\* Step 5, second half, and step 6: the task has run; release or refund,
\* record the job, append the result.
HSettle(t) ==
    /\ hthr[t].pc = "escrowed"
    /\ \E exec_ok \in BOOLEAN :
         LET h == hthr[t]
             agent == h.agent[1]
             price == agent.price_per_unit
             p == IF exec_ok THEN pm_release_escrow(CurPay, h.escrow_id)
                  ELSE pm_refund_escrow(CurPay, h.escrow_id)
             j == record_job_completion(listings, agent.agent_id, exec_ok,
                                        IF exec_ok THEN price ELSE 0)
             s2 == [CurHire EXCEPT !.pay = p.st, !.listings = j.listings]
             r == finish(s2, TotalBudget, h.task_id,
                         IF exec_ok THEN "completed" ELSE "failed", agent.name, price,
                         IF exec_ok THEN None ELSE Some("execution failed"), 1)
         IN /\ SetHire(r.st)
            /\ hthr' = [hthr EXCEPT ![t] = Returned(h, r)]
    /\ UNCHANGED <<lastCall, thr, hire_calls, hire_raised, lastHire, learnVars, gateVars, demoVars, regVars, hubVars, scoreVars>>

NextHireConc == \E t \in Threads : HStart(t) \/ HBudget(t) \/ HEscrow(t) \/ HSettle(t)

\* Threads calling hire() on one HiringManager with one BudgetTracker.
SpecHireConc == Init /\ [][NextHireConc]_vars

(***************************************************************************)
(* The callers of the learning layer.                                      *)
(***************************************************************************)

Agents == {"cheap", "pricey", "new"}

\* The candidate lists recommend_agent is called with.
CandidateLists ==
    { <<>>, <<"pricey">>, <<"cheap", "pricey">>, <<"new", "cheap", "pricey">> }

\* budget=None, budget=0.50
Budgets == {None, Some(50)}

\* exploration_rate in {0.0, 1.0} and a value of rng.random(), in 1/100
ExplorationRates == {0, 100}
Draws == {0, 99}

\* The orders the Beta samples of n candidates can come in (no sample is
\* drawn when the call exploits).
SampleOrders(n) == {f \in [1..n -> 1..n] : \A i, j \in 1..n : i # j => f[i] # f[j]}

NoCall == [op |-> "none", arg |-> None, budget |-> None, rate |-> 0,
           replaced |-> FALSE, ret |-> None, raised |-> FALSE, storage |-> "ok"]

\* collector.record_feedback(rec)
RecordFeedback ==
    /\ \E rec \in FeedbackInputs :
         /\ feedback' = record_feedback(feedback, rec)
         /\ lastLearn' = [NoCall EXCEPT !.op = "record_feedback", !.arg = Some(rec),
                            !.replaced = \E i \in 1..Len(feedback) :
                                            /\ feedback[i].task_id = rec.task_id
                                            /\ feedback[i].agent_id = rec.agent_id]
    /\ UNCHANGED <<agent_scores, payVars, thr, hireVars, hthr, gateVars, demoVars, regVars, hubVars, scoreVars>>

\* scorer.compute_score(agent_id)
ComputeScore ==
    /\ \E agent_id \in Agents :
         LET c == compute_score(feedback, agent_scores, agent_id)
         IN /\ agent_scores' = c.scores
            /\ lastLearn' = [NoCall EXCEPT !.op = "compute_score", !.arg = Some(agent_id),
                               !.ret = Some(c.ret)]
    /\ UNCHANGED <<feedback, payVars, thr, hireVars, hthr, gateVars, demoVars, regVars, hubVars, scoreVars>>

\* optimizer.recommend_agent(candidates, budget=budget) on an optimizer with
\* the given exploration_rate
RecommendAgent ==
    /\ \E cands \in CandidateLists, budget \in Budgets, rate \in ExplorationRates,
          draw \in Draws :
         \E samples \in IF draw < rate THEN SampleOrders(Len(cands)) ELSE {<<>>} :
            LET r == recommend_agent(feedback, agent_scores, cands, budget,
                                     draw < rate, samples)
            IN /\ agent_scores' = r.scores
               /\ lastLearn' = [NoCall EXCEPT !.op = "recommend_agent",
                                  !.arg = Some(cands), !.budget = budget,
                                  !.rate = rate, !.ret = r.ret]
    /\ UNCHANGED <<feedback, payVars, thr, hireVars, hthr, gateVars, demoVars, regVars, hubVars, scoreVars>>

\* collector.get_agent_feedback(agent_id)
GetAgentFeedback ==
    /\ \E agent_id \in Agents :
         lastLearn' = [NoCall EXCEPT !.op = "get_agent_feedback", !.arg = Some(agent_id),
                         !.ret = Some(get_agent_feedback(feedback, agent_id))]
    /\ UNCHANGED <<feedback, agent_scores, payVars, thr, hireVars, hthr, gateVars, demoVars, regVars, hubVars, scoreVars>>

\* optimizer.explore_exploit(candidates) on an optimizer with the given
\* exploration_rate
ExploreExploit ==
    /\ \E cands \in CandidateLists, rate \in ExplorationRates, draw \in Draws :
         \E samples \in IF draw < rate THEN SampleOrders(Len(cands)) ELSE {<<>>} :
            LET r == explore_exploit(feedback, agent_scores, cands, draw < rate, samples)
            IN /\ agent_scores' = r.scores
               /\ lastLearn' = [NoCall EXCEPT !.op = "explore_exploit",
                                  !.arg = Some(cands), !.rate = rate, !.ret = r.ret,
                                  !.raised = r.raised]
    /\ UNCHANGED <<feedback, payVars, thr, hireVars, hthr, gateVars, demoVars, regVars, hubVars, scoreVars>>

NextLearn ==
    \/ RecordFeedback \/ ComputeScore \/ RecommendAgent \/ GetAgentFeedback
    \/ ExploreExploit

\* One feedback database used by its collector, scorer and optimizers.
SpecLearn == Init /\ [][NextLearn]_vars

(***************************************************************************)
(* The learning layer on a database whose writes to agent_scores can fail. *)
(***************************************************************************)

\* scorer.compute_score(agent_id) while the save succeeds or fails
ComputeScoreStorage ==
    /\ \E agent_id \in Agents, save_ok \in BOOLEAN :
         LET c == compute_score_storage(feedback, agent_scores, agent_id, save_ok)
         IN /\ agent_scores' = c.scores
            /\ lastLearn' = [NoCall EXCEPT !.op = "compute_score", !.arg = Some(agent_id),
                               !.ret = c.ret, !.raised = c.raised,
                               !.storage = IF save_ok THEN "ok" ELSE "failed"]
    /\ UNCHANGED <<feedback, payVars, thr, hireVars, hthr, gateVars, demoVars, regVars, hubVars, scoreVars>>

\* The CEO's record_task_feedback tool while the save succeeds or fails
RecordTaskFeedback ==
    /\ now_after(feedback) <= MaxTimestamp
    /\ \E a \in TaskFeedbackInputs, save_ok \in BOOLEAN :
         LET r == record_task_feedback(feedback, agent_scores, a, save_ok)
         IN /\ feedback' = r.rows
            /\ agent_scores' = r.scores
            /\ lastLearn' = [NoCall EXCEPT !.op = "record_task_feedback",
                               !.arg = Some(a), !.ret = Some(r.ret),
                               !.storage = IF save_ok THEN "ok" ELSE "failed"]
    /\ UNCHANGED <<payVars, thr, hireVars, hthr, gateVars, demoVars, regVars, hubVars, scoreVars>>

NextStorage == RecordFeedback \/ ComputeScoreStorage \/ RecordTaskFeedback

SpecStorage == Init /\ [][NextStorage]_vars

(***************************************************************************)
(* One agent's history, built record by record.                            *)
(***************************************************************************)

\* The task ids of the records of the history, in the order they are written
HistoryTasks == <<"h1", "h2", "h3", "h4", "h5", "h6">>

\* The outcome and the quality of a record of the history
HistoryOutcomes == {"success", "failure"}
HistoryQualities == {20, 90}

\* collector.record_feedback of the next task of agent cheap; its timestamp
\* (time.time() by default) is later than that of every record before.
RecordHistory ==
    /\ Len(feedback) < MaxHistory
    /\ \E outcome \in HistoryOutcomes, quality \in HistoryQualities :
         LET rec == FeedbackRecord(HistoryTasks[Len(feedback) + 1], "cheap", outcome,
                                   quality, 100, 10, Len(feedback) + 1)
         IN /\ feedback' = record_feedback(feedback, rec)
            /\ lastLearn' = [NoCall EXCEPT !.op = "record_feedback", !.arg = Some(rec)]
    /\ UNCHANGED <<agent_scores, payVars, thr, hireVars, hthr, gateVars, demoVars, regVars, hubVars, scoreVars>>

NextRecency == RecordHistory \/ ComputeScore

SpecRecency == Init /\ [][NextRecency]_vars

\* The candidate lists of a recommendation for the agent with the history,
\* for an agent without feedback, and for both
HistoryCandidates == {<<"cheap">>, <<"new">>, <<"cheap", "new">>}

\* optimizer.recommend_agent(candidates) on an optimizer with exploration_rate
\* 0.0 (every call exploits), without budget
RecommendByScore ==
    /\ \E cands \in HistoryCandidates :
         LET r == recommend_agent(feedback, agent_scores, cands, None, FALSE, <<>>)
         IN /\ agent_scores' = r.scores
            /\ lastLearn' = [NoCall EXCEPT !.op = "recommend_agent", !.arg = Some(cands),
                               !.ret = r.ret]
    /\ UNCHANGED <<feedback, payVars, thr, hireVars, hthr, gateVars, demoVars, regVars, hubVars, scoreVars>>

NextInterval == RecordHistory \/ RecommendByScore

SpecInterval == Init /\ [][NextInterval]_vars

(***************************************************************************)
(* The callers of MarketplaceRegistry.                                     *)
(***************************************************************************)

\* The agent ids callers pass: one listed at start-up, one listed only once registered
RegistryIds == {"coder", "ghost"}

\* The listings callers register: a new version of a listed agent, a new agent
RegisterInputs ==
    { AgentListing("coder", "Coder v2", << <<"c","o","d","e">> >>, 3, 400),
      AgentListing("ghost", "Ghost", << <<"q","a">> >>, 1, 350) }

\* The earnings passed to record_job_completion
EarningsInputs == {2}

RegCall(op, agent_id, success, earnings, ret) ==
    [op |-> op, arg |-> [agent_id |-> agent_id, success |-> success, earnings |-> earnings],
     ret |-> ret]

total_jobs_of(regs, agent_id) ==
    IF index_of(regs, agent_id) = 0 THEN 0 ELSE regs[index_of(regs, agent_id)].total_jobs

RegisterAgent ==
    /\ \E l \in RegisterInputs :
         LET r == register_agent(listings, l)
         IN /\ listings' = r.listings
            /\ lastReg' = RegCall("register_agent", l.agent_id, FALSE, 0, Some(r.ret))
    /\ UNCHANGED <<payVars, thr, spent, hire_history, hire_calls, hire_raised, lastHire,
                   hthr, learnVars, gateVars, demoVars, hubVars, scoreVars>>

UnregisterAgent ==
    /\ \E id \in RegistryIds :
         LET r == unregister_agent(listings, id)
         IN /\ listings' = r.listings
            /\ lastReg' = RegCall("unregister_agent", id, FALSE, 0, Some(r.ret))
    /\ UNCHANGED <<payVars, thr, spent, hire_history, hire_calls, hire_raised, lastHire,
                   hthr, learnVars, gateVars, demoVars, hubVars, scoreVars>>

GetAgent ==
    /\ \E id \in RegistryIds :
         lastReg' = RegCall("get_agent", id, FALSE, 0, get_agent(listings, id))
    /\ UNCHANGED <<payVars, thr, hireVars, hthr, learnVars, gateVars, demoVars, hubVars, scoreVars>>

Count ==
    /\ lastReg' = RegCall("count", "", FALSE, 0, Some(listing_count(listings)))
    /\ UNCHANGED <<payVars, thr, hireVars, hthr, learnVars, gateVars, demoVars, hubVars, scoreVars>>

IncrementJobs ==
    /\ \E id \in RegistryIds :
         /\ total_jobs_of(listings, id) < MaxJobs
         /\ LET r == increment_jobs(listings, id)
            IN /\ listings' = r.listings
               /\ lastReg' = RegCall("increment_jobs", id, FALSE, 0, Some(r.ret))
    /\ UNCHANGED <<payVars, thr, spent, hire_history, hire_calls, hire_raised, lastHire,
                   hthr, learnVars, gateVars, demoVars, hubVars, scoreVars>>

RecordJobCompletion ==
    /\ \E id \in RegistryIds, success \in BOOLEAN, earnings \in EarningsInputs :
         /\ total_jobs_of(listings, id) < MaxJobs
         /\ LET r == record_job_completion(listings, id, success, earnings)
            IN /\ listings' = r.listings
               /\ lastReg' = RegCall("record_job_completion", id, success, earnings, Some(r.ret))
    /\ UNCHANGED <<payVars, thr, spent, hire_history, hire_calls, hire_raised, lastHire,
                   hthr, learnVars, gateVars, demoVars, hubVars, scoreVars>>

NextRegistry ==
    \/ RegisterAgent \/ UnregisterAgent \/ GetAgent \/ Count
    \/ IncrementJobs \/ RecordJobCompletion

SpecRegistry == Init /\ [][NextRegistry]_vars

(***************************************************************************)
(* The callers of SkillMatcher.match, on a registry that changes.          *)
(***************************************************************************)

\* The arguments match() is called with
MatchSkills == RequestSkills \cup { << <<"q","a">>, <<"a">> >> }
MinRatings == {0, 400}
MaxPrices == {None, Some(0), Some(2)}
TopNs == {1, 2, 5}

MatchCall(required_skills, min_rating, max_price, top_n, ret) ==
    [op |-> "match",
     arg |-> [required_skills |-> required_skills, min_rating |-> min_rating,
              max_price |-> max_price, top_n |-> top_n],
     ret |-> ret]

Match ==
    /\ \E sk \in MatchSkills, r \in MinRatings, p \in MaxPrices, n \in TopNs :
         lastReg' = MatchCall(sk, r, p, n, match(listings, sk, r, p, n))
    /\ UNCHANGED <<payVars, thr, hireVars, hthr, learnVars, gateVars, demoVars, hubVars, scoreVars>>

NextMatch == RegisterAgent \/ UnregisterAgent \/ Match

SpecMatch == Init /\ [][NextMatch]_vars

\* The agents and the statuses callers pass to set_availability: listed agents
\* and one that is not, the three statuses and one that does not exist.
AvailabilityIds == {"coder", "free", "nope"}
AvailabilityInputs == {"available", "busy", "offline", "sleeping"}

\* A caller calls MarketplaceRegistry.set_availability.
SetAvailability ==
    /\ \E id \in AvailabilityIds, status \in AvailabilityInputs :
         LET r == set_availability(listings, id, status)
         IN /\ listings' = r.listings
            /\ lastReg' = RegCall("set_availability", id, FALSE, 0, Some(r.ret))
    /\ UNCHANGED <<payVars, thr, spent, hire_history, hire_calls, hire_raised, lastHire,
                   hthr, learnVars, gateVars, demoVars, hubVars, scoreVars>>

\* A caller calls MarketplaceRegistry.list_available.
ListAvailable ==
    /\ lastReg' = RegCall("list_available", "", FALSE, 0, list_available(listings))
    /\ UNCHANGED <<payVars, thr, hireVars, hthr, learnVars, gateVars, demoVars, hubVars, scoreVars>>

NextAvailability == SetAvailability \/ ListAvailable \/ Match

\* A registry whose agents go offline and come back while callers match.
SpecAvailability == Init /\ [][NextAvailability]_vars

\* A caller calls match() without required skills.
MatchEmpty ==
    /\ \E r \in MinRatings, p \in MaxPrices, n \in TopNs :
         lastReg' = MatchCall(<<>>, r, p, n, match(listings, <<>>, r, p, n))
    /\ UNCHANGED <<payVars, thr, hireVars, hthr, learnVars, gateVars, demoVars, hubVars, scoreVars>>

(***************************************************************************)
(* The demo workflow, one step at a time.                                  *)
(***************************************************************************)

\* The budgets a demo run is configured with (in cents)
DemoBudgets == {0, 1, 5, 6, 10, 15, 500}

\* The required skills a demo run is configured with
DemoSkills ==
    { <<design, ui, landing_page>>,
      <<design, landing_page>>,
      <<<<"D","e","s","i","g","n">>, <<"U","I">>>>,
      <<code, design, ux, mockup>>,
      <<api>>,
      <<wireframe, layout, design>>,
      <<<<"r","u","s","t">>>>,
      <<>> }

\* run_demo_workflow is called with a configuration.
DemoStart ==
    /\ demo.pc \in {"idle", "done"}
    /\ \E b \in DemoBudgets, sk \in DemoSkills : demo' = demo_start(DemoConfig(b, sk))
    /\ UNCHANGED <<payVars, thr, hireVars, hthr, learnVars, gateVars, regVars, hubVars, scoreVars>>

DemoDiscovery ==
    /\ demo.pc = "discovery"
    /\ demo' = demo_discovery(demo)
    /\ UNCHANGED <<payVars, thr, hireVars, hthr, learnVars, gateVars, regVars, hubVars, scoreVars>>

DemoEvaluation ==
    /\ demo.pc = "evaluation"
    /\ demo' = demo_evaluation(demo)
    /\ UNCHANGED <<payVars, thr, hireVars, hthr, learnVars, gateVars, regVars, hubVars, scoreVars>>

DemoHiring ==
    /\ demo.pc = "hiring"
    /\ demo' = demo_hiring(demo)
    /\ UNCHANGED <<payVars, thr, hireVars, hthr, learnVars, gateVars, regVars, hubVars, scoreVars>>

DemoExecution ==
    /\ demo.pc = "execution"
    /\ demo' = demo_execution(demo)
    /\ UNCHANGED <<payVars, thr, hireVars, hthr, learnVars, gateVars, regVars, hubVars, scoreVars>>

DemoPayment ==
    /\ demo.pc = "payment"
    /\ demo' = demo_payment(demo)
    /\ UNCHANGED <<payVars, thr, hireVars, hthr, learnVars, gateVars, regVars, hubVars, scoreVars>>

NextDemo ==
    DemoStart \/ DemoDiscovery \/ DemoEvaluation \/ DemoHiring \/ DemoExecution \/ DemoPayment

SpecDemo == Init /\ [][NextDemo]_vars

\* The tasks, budgets and payment amounts callers pass to the payment hub.
HubTasks == {"t1", "t2"}
HubBudgets == {2, 3}
HubAmounts == {1, 2}

CurHub == HubState(hub.budgets, hub.transactions)

\* The call just made, with the budget of the task as it was before the call.
HubCall(op, task_id, amount, ret) ==
    [op |-> op, task_id |-> task_id, amount |-> amount,
     budget |-> get_budget(CurHub, task_id), ret |-> ret]

\* A caller calls the allocate_budget tool of the payment hub.
AllocateBudget ==
    /\ \E t \in HubTasks, a \in HubBudgets :
         LET h == allocate_budget(CurHub, t, a)
         IN hub' = [budgets |-> h.budgets, transactions |-> h.transactions,
                    last |-> HubCall("allocate_budget", t, a, "allocated")]
    /\ UNCHANGED <<payVars, thr, hireVars, hthr, learnVars, gateVars, demoVars, regVars, scoreVars>>

\* A caller calls the pay_agent tool of the payment hub.
ToolPayAgent ==
    /\ Len(hub.transactions) < MaxPayments
    /\ \E t \in HubTasks, a \in HubAmounts :
         LET r == tool_pay_agent(CurHub, "designer", a, t)
         IN hub' = [budgets |-> r.hub.budgets, transactions |-> r.hub.transactions,
                    last |-> HubCall("tool_pay_agent", t, a, r.ret)]
    /\ UNCHANGED <<payVars, thr, hireVars, hthr, learnVars, gateVars, demoVars, regVars, scoreVars>>

\* A client calls pay_agent on the standalone server.
HandlePayAgent ==
    /\ Len(hub.transactions) < MaxPayments
    /\ \E t \in HubTasks, a \in HubAmounts :
         LET r == handle_pay_agent(CurHub, "designer", a, t)
         IN hub' = [budgets |-> r.hub.budgets, transactions |-> r.hub.transactions,
                    last |-> HubCall("handle_pay_agent", t, a, r.ret)]
    /\ UNCHANGED <<payVars, thr, hireVars, hthr, learnVars, gateVars, demoVars, regVars, scoreVars>>

NextHub == AllocateBudget \/ ToolPayAgent \/ HandlePayAgent

\* Both servers in use on the one global ledger.
SpecHub == Init /\ [][NextHub]_vars

\* What callers hand to the two entry points of the feedback store when
\* nothing restricts them: records inside the data model, a record with an
\* outcome that is none of the three and one with a quality of 1.5; tool calls
\* with a quality of 1.5 and an outcome that is none of the three.
RawFeedbackInputs ==
    { FeedbackRecord("t1", "cheap", "success", 70, 100, 10, 1),
      FeedbackRecord("t2", "cheap", "ok", 50, 100, 90, 2),
      FeedbackRecord("t3", "cheap", "success", 150, 100, 10, 3) }
RawTaskInputs ==
    { <<"t4", "cheap", "done", 150, 100, 10>>,
      <<"t1", "cheap", "failure", 20, 250, 30>> }

\* collector.record_feedback(rec) with any record a caller can build
RecordRawFeedback ==
    /\ \E rec \in RawFeedbackInputs :
         /\ feedback' = record_feedback(feedback, rec)
         /\ lastLearn' = [NoCall EXCEPT !.op = "record_feedback", !.arg = Some(rec)]
    /\ UNCHANGED <<agent_scores, payVars, thr, hireVars, hthr, gateVars, demoVars, regVars, hubVars, scoreVars>>

\* The record_task_feedback tool with any arguments a caller can pass
RecordRawTaskFeedback ==
    /\ now_after(feedback) <= MaxTimestamp + 1
    /\ \E a \in RawTaskInputs :
         LET r == record_task_feedback(feedback, agent_scores, a, TRUE)
         IN /\ feedback' = r.rows
            /\ agent_scores' = r.scores
            /\ lastLearn' = [NoCall EXCEPT !.op = "record_task_feedback",
                               !.arg = Some(a), !.ret = Some(r.ret)]
    /\ UNCHANGED <<payVars, thr, hireVars, hthr, gateVars, demoVars, regVars, hubVars, scoreVars>>

NextIngest == RecordRawFeedback \/ RecordRawTaskFeedback \/ ComputeScore

\* Both entry points of the feedback store in use, and the scorer reading it.
SpecIngest == Init /\ [][NextIngest]_vars

\* The agents whose score is computed while feedback is being written.
ScoredAgents == {"cheap"}

\* compute_score(agent_id) starts: the one read of the agent's feedback.  An
\* agent without records is returned the prior at once.
ScoreRead ==
    /\ scoring.pc \in {"idle", "done"}
    /\ \E agent_id \in ScoredAgents :
         LET records == get_agent_feedback(feedback, agent_id)
         IN scoring' =
              [IdleScoring EXCEPT
                 !.agent_id = agent_id, !.records = records, !.seen = <<feedback>>,
                 !.pc = IF records = <<>> THEN "done" ELSE "success_rate",
                 !.ret = IF records = <<>>
                         THEN Some(AgentScore(agent_id, 5000, 5000, 5000, 5000, 5000, 0, 0))
                         ELSE None]
    /\ UNCHANGED <<learnVars, payVars, thr, hireVars, hthr, gateVars, demoVars, regVars, hubVars>>

\* The four metric computations, one after the other.
ScoreMetric ==
    /\ scoring.pc \in {"success_rate", "avg_quality", "reliability", "cost_efficiency"}
    /\ LET records == records_in_use(scoring.records, feedback, scoring.agent_id)
       IN scoring' =
            CASE scoring.pc = "success_rate" ->
                   [scoring EXCEPT !.success_rate = weighted_success_rate(records),
                                   !.pc = "avg_quality"]
              [] scoring.pc = "avg_quality" ->
                   [scoring EXCEPT !.avg_quality = weighted_avg_quality(records),
                                   !.pc = "reliability"]
              [] scoring.pc = "reliability" ->
                   [scoring EXCEPT !.reliability = compute_reliability(records),
                                   !.pc = "cost_efficiency"]
              [] OTHER ->
                   [scoring EXCEPT !.cost_efficiency = compute_cost_efficiency(records),
                                   !.pc = "save"]
    /\ UNCHANGED <<learnVars, payVars, thr, hireVars, hthr, gateVars, demoVars, regVars, hubVars>>

\* The score is built, saved and returned.
ScoreSave ==
    /\ scoring.pc = "save"
    /\ LET records == records_in_use(scoring.records, feedback, scoring.agent_id)
           score == assemble_score(scoring.agent_id, records, scoring.success_rate,
                                   scoring.avg_quality, scoring.reliability,
                                   scoring.cost_efficiency)
       IN /\ agent_scores' = save_agent_score(agent_scores, score)
          /\ scoring' = [scoring EXCEPT !.pc = "done", !.ret = Some(score)]
    /\ UNCHANGED <<feedback, lastLearn, payVars, thr, hireVars, hthr, gateVars, demoVars, regVars, hubVars>>

\* Another thread calls record_feedback; while a compute_score call is
\* running the store states it passes through are noted, at most
\* MaxInterleaved writes per call.
WriteFeedback ==
    /\ \E rec \in FeedbackInputs :
         /\ feedback' = record_feedback(feedback, rec)
         /\ IF scoring.pc \in {"idle", "done"}
            THEN scoring' = scoring
            ELSE /\ Len(scoring.seen) <= MaxInterleaved
                 /\ scoring' = [scoring EXCEPT
                                  !.seen = Append(@, record_feedback(feedback, rec))]
    /\ UNCHANGED <<agent_scores, lastLearn, payVars, thr, hireVars, hthr, gateVars, demoVars, regVars, hubVars>>

NextScoring == ScoreRead \/ ScoreMetric \/ ScoreSave \/ WriteFeedback

\* compute_score running while other threads write feedback.
SpecScoring == Init /\ [][NextScoring]_vars

\* Requests without required skills, sent to the matcher and to the demo workflow.
NextEmptySkills == RegisterAgent \/ UnregisterAgent \/ MatchEmpty \/ NextDemo

SpecEmptySkills == Init /\ [][NextEmptySkills]_vars


(***************************************************************************)
(* Claims about the payment core.                                          *)
(***************************************************************************)

RECURSIVE SumAmounts(_, _)
SumAmounts(entries, ids) ==
    IF ids = {} THEN 0
    ELSE LET id == CHOOSE x \in ids : TRUE
         IN entries[id].amount + SumAmounts(entries, ids \ {id})

\* The number of ledger events of one type for one escrow id.
EventCount(led, event_type, id) ==
    Cardinality({i \in 1..Len(led) :
                   led[i].event_type = event_type /\ led[i].escrow_id = id})

\* What the resolved entries credit to one account: the released entries it is
\* the payee of and the refunded entries it is the payer of.
Owed(entries, agent) ==
    SumAmounts(entries, {id \in DOMAIN entries :
                           entries[id].status = "released" /\ entries[id].payee = agent})
    + SumAmounts(entries, {id \in DOMAIN entries :
                           entries[id].status = "refunded" /\ entries[id].payer = agent})

IsResolveCall(c) == c.op \in {"release_escrow", "refund_escrow"}

\* A release_escrow / refund_escrow call on a held entry returns the entry in
\* its terminal state; a call on an entry already resolved the same way returns
\* None and changes neither the entries (status, resolved_at), the balances nor
\* the ledger.
C2_Step ==
    IsResolveCall(lastCall') =>
        LET id == lastCall'.arg
            terminal == IF lastCall'.op = "release_escrow" THEN "released" ELSE "refunded"
        IN /\ (id \in DOMAIN escrow_entries /\ escrow_entries[id].status = "held") =>
                /\ lastCall'.ret = Some(escrow_entries'[id])
                /\ escrow_entries'[id].status = terminal
                /\ escrow_entries'[id].resolved_at # None
           /\ (id \in DOMAIN escrow_entries /\ escrow_entries[id].status = terminal) =>
                /\ lastCall'.ret = None
                /\ UNCHANGED <<escrow_entries, balances, ledger>>

\* Every account holds exactly what its resolved entries credit to it, one
\* credit per entry, and the ledger holds one resolution event per resolved entry.
C2_CreditedOnce ==
    /\ \A agent \in DOMAIN balances \cup {"ceo", "agent1", "agent2"} :
         get(balances, agent, 0) = Owed(escrow_entries, agent)
    /\ \A id \in DOMAIN escrow_entries :
         /\ EventCount(ledger, "escrow_release", id)
              = IF escrow_entries[id].status = "released" THEN 1 ELSE 0
         /\ EventCount(ledger, "escrow_refund", id)
              = IF escrow_entries[id].status = "refunded" THEN 1 ELSE 0

\* C2: calling release_escrow (or refund_escrow) twice on the same escrow id,
\* the first call returns the entry in its terminal state, the second returns
\* None and changes nothing; over any number of repeat calls the payee (resp.
\* payer) is credited with the entry amount exactly once.
C2_EscrowIdempotent == [][C2_Step]_vars /\ []C2_CreditedOnce

\* A second release_escrow on a released entry has returned None, and the payee
\* holds the amount once.
C2_Witness ==
    /\ lastCall.op = "release_escrow"
    /\ lastCall.ret = None
    /\ lastCall.arg \in DOMAIN escrow_entries
    /\ escrow_entries[lastCall.arg].status = "released"
    /\ get(balances, escrow_entries[lastCall.arg].payee, 0)
         = escrow_entries[lastCall.arg].amount

\* C3: an entry's status only moves held -> released or held -> refunded; a
\* release or refund on a resolved entry (refund after release and release
\* after refund included) returns None and leaves the status; a release or
\* refund on an unknown id returns None and creates no entry.
C3_Step ==
    /\ DOMAIN escrow_entries \subseteq DOMAIN escrow_entries'
    /\ \A id \in DOMAIN escrow_entries' \ DOMAIN escrow_entries :
         escrow_entries'[id].status = "held"
    /\ \A id \in DOMAIN escrow_entries :
         escrow_entries'[id].status # escrow_entries[id].status =>
            /\ escrow_entries[id].status = "held"
            /\ escrow_entries'[id].status \in {"released", "refunded"}
    /\ IsResolveCall(lastCall') =>
         LET id == lastCall'.arg IN
         /\ (id \in DOMAIN escrow_entries /\ escrow_entries[id].status # "held") =>
              /\ lastCall'.ret = None
              /\ escrow_entries'[id] = escrow_entries[id]
         /\ id \notin DOMAIN escrow_entries =>
              /\ lastCall'.ret = None
              /\ escrow_entries' = escrow_entries

C3_EscrowTransitions == [][C3_Step]_vars

\* A refund_escrow on a released entry has returned None.
C3_Witness ==
    /\ lastCall.op = "refund_escrow"
    /\ lastCall.ret = None
    /\ lastCall.arg \in DOMAIN escrow_entries
    /\ escrow_entries[lastCall.arg].status = "released"

\* The threads whose call on escrow id returned the entry (succeeded).
Resolvers(id) ==
    {t \in Threads : thr[t].id = id /\ thr[t].pc = "done" /\ thr[t].ret # None}

\* C4: when callers concurrently resolve the same held entry, at most one call
\* succeeds: the payee is credited at most once, and no entry is both credited
\* to the payee and refunded to the payer.
C4_AtMostOneResolver ==
    \A id \in DOMAIN escrow_entries :
        /\ Cardinality(Resolvers(id)) <= 1
        /\ EventCount(ledger, "escrow_release", id) <= 1
        /\ ~(/\ EventCount(ledger, "escrow_release", id) >= 1
             /\ EventCount(ledger, "escrow_refund", id) >= 1)

(***************************************************************************)
(* Claims about hiring.                                                    *)
(***************************************************************************)

\* The sum of agreed_price over the completed results of a history.
RECURSIVE CompletedSum(_)
CompletedSum(history) ==
    IF history = <<>> THEN 0
    ELSE (IF history[1].status = "completed" THEN history[1].agreed_price ELSE 0)
         + CompletedSum(Tail(history))

\* C1: under every interleaving of concurrent hire() calls on one
\* HiringManager, the sum of agreed_price over the completed HireResults never
\* exceeds the BudgetTracker's total, and neither does what the tracker has
\* committed: reserve is one atomic check-and-commit.
C1_BudgetNeverExceeded ==
    /\ CompletedSum(hire_history) <= TotalBudget
    /\ spent <= TotalBudget

\* One caller has been refused by the global ceiling while another caller's
\* hire, holding its reservation, is still in flight.
C1_Witness ==
    \E t1, t2 \in Threads :
        /\ t1 # t2
        /\ hthr[t1].pc = "done"
        /\ hthr[t1].result # None
        /\ hthr[t1].result[1].status = "budget_exceeded"
        /\ hthr[t1].reserves = 1
        /\ hthr[t2].pc \in {"budget_checked", "escrowed"}
        /\ spent > 0

\* The listing of the agent a result names, before and after the call.
ListingNamed(regs, name) ==
    regs[CHOOSE i \in 1..Len(regs) : regs[i].name = name]

\* A hire() call that ran the task has created exactly one escrow entry and
\* resolved it: released with the job counted as completed and the price
\* earned when the task succeeded, refunded with the job counted as failed
\* and nothing earned when it failed.  A call that did not run the task has
\* created no escrow entry.
C5_Step ==
    hire_calls' = hire_calls + 1 =>
        LET h == lastHire'
            new == DOMAIN escrow_entries' \ DOMAIN escrow_entries
        IN /\ (h.exec = "not_run") <=> (new = {})
           /\ h.exec # "not_run" =>
                LET res == h.result[1]
                    before == ListingNamed(listings, res.agent_name)
                    after == ListingNamed(listings', res.agent_name)
                IN /\ Cardinality(new) = 1
                   /\ \A id \in new :
                        /\ escrow_entries'[id].amount = res.agreed_price
                        /\ escrow_entries'[id].payee = after.agent_id
                        /\ escrow_entries'[id].resolved_at # None
                        /\ escrow_entries'[id].status =
                             IF h.exec = "success" THEN "released" ELSE "refunded"
                   /\ res.status = IF h.exec = "success" THEN "completed" ELSE "failed"
                   /\ after.total_jobs = before.total_jobs + 1
                   /\ after.completed_jobs =
                        before.completed_jobs + (IF h.exec = "success" THEN 1 ELSE 0)
                   /\ after.failed_jobs =
                        before.failed_jobs + (IF h.exec = "failure" THEN 1 ELSE 0)
                   /\ after.total_earnings =
                        before.total_earnings
                          + (IF h.exec = "success" THEN res.agreed_price ELSE 0)

\* Between hire() calls no escrow entry is held.
C5_NoneHeld == \A id \in DOMAIN escrow_entries : escrow_entries[id].status # "held"

\* C5: every hire() that holds escrow resolves it before returning: released,
\* total_jobs and completed_jobs up by one, total_earnings up by the agreed
\* price and status completed on execution success; refunded, total_jobs and
\* failed_jobs up by one, total_earnings unchanged and status failed on
\* execution failure; no escrow entry made by hire() is held after it returns.
C5_EscrowResolved == [][C5_Step]_vars /\ []C5_NoneHeld

\* A hire() whose task failed has returned: its escrow entry is refunded and
\* the agent has one failed job.
C5_Witness ==
    /\ lastHire.exec = "failure"
    /\ lastHire.result[1].status = "failed"
    /\ \E id \in DOMAIN escrow_entries :
         /\ escrow_entries[id].task_id = lastHire.result[1].task_id
         /\ escrow_entries[id].status = "refunded"
    /\ ListingNamed(listings, lastHire.result[1].agent_name).failed_jobs >= 1

\* hire() reached selection for this request: it passed validation and the
\* matcher returned candidates.
Selected(regs, request) ==
    request.budget > 0 /\ candidates(regs, request) # <<>>

SelectedPrice(regs, request) == select_best(candidates(regs, request)).price_per_unit

\* The selected agent's price exceeds the per-request ceiling.
OverRequestBudget(regs, request) ==
    Selected(regs, request) /\ SelectedPrice(regs, request) > request.budget

\* The selected agent's price is within the request's budget and the tracker
\* cannot take it.
OverGlobalBudget(regs, used, request) ==
    /\ Selected(regs, request)
    /\ SelectedPrice(regs, request) <= request.budget
    /\ used + SelectedPrice(regs, request) > TotalBudget

\* A hire() stopped by either ceiling returns budget_exceeded, does not raise,
\* and leaves the escrow entries, balances, ledger, spent amount and listings
\* as they were; only such a hire() returns budget_exceeded.
C6_Frame ==
    hire_calls' = hire_calls + 1 =>
        LET h == lastHire'
            stopped == \/ OverRequestBudget(listings, h.request)
                       \/ OverGlobalBudget(listings, spent, h.request)
        IN /\ stopped =>
                /\ ~h.raised
                /\ h.result # None
                /\ h.result[1].status = "budget_exceeded"
                /\ UNCHANGED <<escrow_entries, balances, ledger, spent, listings>>
           /\ (h.result # None /\ h.result[1].status = "budget_exceeded") => stopped

\* C6 as stated: a hire() stopped by either ceiling returns budget_exceeded
\* instead of raising, leaves escrow entries, ledger, spent amount and job
\* counters unchanged, and has made exactly one reservation attempt.
C6_ExactlyOneAttempt ==
    [][/\ C6_Frame
       /\ (/\ hire_calls' = hire_calls + 1
           /\ \/ OverRequestBudget(listings, lastHire'.request)
              \/ OverGlobalBudget(listings, spent, lastHire'.request))
          => lastHire'.reserves = 1]_vars

\* C6 (amended): a hire() whose selected agent's price exceeds request.budget,
\* or whose global BudgetTracker.reserve fails, returns budget_exceeded instead
\* of raising and leaves escrow entries, ledger entries, the tracker's spent
\* amount and the job counters unchanged; it makes at most one reservation
\* attempt: none when the per-request ceiling stops it, exactly one when the
\* global reserve fails.
C6_BudgetExceeded ==
    [][/\ C6_Frame
       /\ hire_calls' = hire_calls + 1 =>
            /\ OverRequestBudget(listings, lastHire'.request) => lastHire'.reserves = 0
            /\ OverGlobalBudget(listings, spent, lastHire'.request)
                 => lastHire'.reserves = 1]_vars

\* After an earlier hire has spent part of the budget, a hire() has been
\* refused by the global ceiling with the spent amount left where it was.
C6_Witness ==
    /\ lastHire.result # None
    /\ lastHire.result[1].status = "budget_exceeded"
    /\ lastHire.reserves = 1
    /\ spent > 0
    /\ lastHire.result[1].budget_remaining = TotalBudget - spent

\* No required skill is contained in any skill of any listing (both
\* lower-cased).
Unmatched(regs, required_skills) ==
    /\ required_skills # <<>>
    /\ \A i \in 1..Len(regs) : \A j \in 1..Len(regs[i].skills) :
         \A k \in 1..Len(required_skills) :
            ~contains(lower(regs[i].skills[j]), lower(required_skills[k]))

\* C7: hire() with required skills that no agent of a non-empty catalog
\* matches creates no escrow entry and no ledger entry and reserves no budget,
\* and the result it returns has status no_suitable_agents and agent_name
\* "none".
C7_Step ==
    (/\ hire_calls' = hire_calls + 1
     /\ Len(listings) > 0
     /\ Unmatched(listings, lastHire'.request.required_skills)) =>
        /\ UNCHANGED <<escrow_entries, balances, ledger, spent, listings>>
        /\ lastHire'.reserves = 0
        /\ lastHire'.exec = "not_run"
        /\ lastHire'.request.budget > 0 =>
             /\ lastHire'.result # None
             /\ lastHire'.result[1].status = "no_suitable_agents"
             /\ lastHire'.result[1].agent_name = "none"

HistoryKept ==
    \A i \in 1..Len(hire_history) :
        /\ i <= Len(hire_history')
        /\ hire_history'[i] = hire_history[i]

C8_Step ==
    hire_calls' = hire_calls + 1 =>
        IF lastHire'.raised
        THEN hire_history' = hire_history
        ELSE /\ lastHire'.result # None
             /\ lastHire'.result[1].status
                  \in {"completed", "budget_exceeded", "no_suitable_agents", "failed"}
             /\ hire_history' = Append(hire_history, lastHire'.result[1])

RowsOf(agent_id) == {i \in 1..Len(feedback) : feedback[i].agent_id = agent_id}

RECURSIVE CostSum(_)
CostSum(idx) ==
    IF idx = {} THEN 0
    ELSE LET i == CHOOSE x \in idx : TRUE
         IN feedback[i].cost_usdc + CostSum(idx \ {i})

\* C9: recommend_agent(candidates, budget=b) never returns a candidate with
\* feedback history whose mean cost_usdc exceeds b, also when every candidate
\* with history exceeds b; a candidate without feedback is never removed by
\* the budget filter, so when the call exploits and such a candidate is given
\* the agent returned scores at least the neutral prior.
C9_BudgetRespected ==
    (/\ lastLearn.op = "recommend_agent"
     /\ lastLearn.budget # None
     /\ lastLearn.ret # None) =>
        LET mine == RowsOf(lastLearn.ret[1].agent_id)
            cands == lastLearn.arg[1]
        IN /\ mine # {} => CostSum(mine) <= lastLearn.budget[1] * Cardinality(mine)
           /\ (/\ ~lastLearn.ret[1].is_exploration
               /\ \E i \in 1..Len(cands) : RowsOf(cands[i]) = {})
                => lastLearn.ret[1].expected_score >= 5000

\* No two stored rows have the same (task_id, agent_id).
C10_OnePerKey ==
    \A i, j \in 1..Len(feedback) :
        (/\ feedback[i].task_id = feedback[j].task_id
         /\ feedback[i].agent_id = feedback[j].agent_id) => i = j

SameKey(r, rec) == r.task_id = rec.task_id /\ r.agent_id = rec.agent_id

\* After record_feedback(rec) the store holds rec itself (outcome, quality,
\* latency, cost and timestamp of this write) under rec's key, the rows of
\* the other keys are the ones held before, and recording the record that was
\* recorded just before leaves the store as it is.
C10_Step ==
    lastLearn'.op = "record_feedback" =>
        LET rec == lastLearn'.arg[1]
        IN /\ \E i \in 1..Len(feedback') : feedback'[i] = rec
           /\ \A i \in 1..Len(feedback') : SameKey(feedback'[i], rec) => feedback'[i] = rec
           /\ {feedback'[i] : i \in {k \in 1..Len(feedback') : ~SameKey(feedback'[k], rec)}}
                = {feedback[i] : i \in {k \in 1..Len(feedback) : ~SameKey(feedback[k], rec)}}
           /\ Len(feedback') = Len(feedback) + (IF lastLearn'.replaced THEN 0 ELSE 1)
           /\ (lastLearn.op = "record_feedback" /\ lastLearn.arg = lastLearn'.arg)
                => feedback' = feedback

\* C10: record_feedback is an upsert keyed by (task_id, agent_id): the store
\* holds at most one record per key, carrying the values of the last write for
\* the key; writes leave the records of other keys as they are, and recording
\* the same record twice equals recording it once.
C10_Upsert == [][C10_Step]_vars /\ []C10_OnePerKey

\* A second write for (t1, cheap) has replaced the stored record while records
\* of other keys are held.
C10_Witness ==
    /\ lastLearn.op = "record_feedback"
    /\ lastLearn.replaced
    /\ lastLearn.arg[1].outcome = "failure"
    /\ Len(feedback) >= 3
    /\ \A i \in 1..Len(feedback) :
         (feedback[i].task_id = "t1" /\ feedback[i].agent_id = "cheap")
            => feedback[i].outcome = "failure"

(***************************************************************************)
(* Claims about the ledger.                                                *)
(***************************************************************************)

\* The PaymentManager calls that call PaymentLedger.record: every
\* create_payment_request, verify_payment and hold_escrow, and a release_escrow
\* or refund_escrow that returns the entry.
Records(c) ==
    \/ c.op \in {"create_payment_request", "verify_payment", "hold_escrow"}
    \/ IsResolveCall(c) /\ c.ret # None

\* C11: the ledger is append-only.  Every call other than clear() leaves the
\* entries the ledger had, with their content and in their order, as a prefix
\* of the ledger; a call that records appends exactly one entry to them and
\* every other call (a release or refund that returns None, a query) none, so
\* count() never decreases.
C11_AppendOnly ==
    [][lastCall'.op # "clear" =>
         /\ Len(ledger') = Len(ledger) + (IF Records(lastCall') THEN 1 ELSE 0)
         /\ SubSeq(ledger', 1, Len(ledger)) = ledger
         /\ count(ledger') >= count(ledger)]_vars

\* A query on a ledger that holds a hold, a release and a verification event
\* returns them and the ledger still holds them.
C11_Witness ==
    /\ lastCall.op = "get_all"
    /\ lastCall.ret = Some(ledger)
    /\ Len(ledger) = 3
    /\ \E i, j \in 1..3 : /\ i < j
                          /\ ledger[i].event_type = "escrow_hold"
                          /\ ledger[j].event_type = "escrow_release"

\* The positions of the ledger events of one type for one escrow id.
EventsAt(led, event_type, id) ==
    {i \in 1..Len(led) : led[i].event_type = event_type /\ led[i].escrow_id = id}

ResolutionsAt(led, id) ==
    EventsAt(led, "escrow_release", id) \cup EventsAt(led, "escrow_refund", id)

\* The hold, release or refund event of an escrow entry.
EventOf(event_type, entry, e) ==
    /\ e.event_type = event_type
    /\ e.payer = entry.payer /\ e.payee = entry.payee /\ e.amount = entry.amount
    /\ e.task_id = entry.task_id /\ e.escrow_id = entry.escrow_id

\* A hold_escrow, and a release_escrow / refund_escrow that returns the entry,
\* appends exactly one event of its type carrying the entry's payer, payee,
\* amount, task id and escrow id; a release or refund that returns None
\* appends none.
C12_Step ==
    lastCall'.op \in {"hold_escrow", "release_escrow", "refund_escrow"} =>
        IF lastCall'.ret = None
        THEN ledger' = ledger
        ELSE /\ Len(ledger') = Len(ledger) + 1
             /\ SubSeq(ledger', 1, Len(ledger)) = ledger
             /\ EventOf(CASE lastCall'.op = "hold_escrow" -> "escrow_hold"
                          [] lastCall'.op = "release_escrow" -> "escrow_release"
                          [] OTHER -> "escrow_refund",
                        lastCall'.ret[1], ledger'[Len(ledger')])

C12_OneEventPerCall == [][C12_Step]_vars

\* C12: the ledger holds one hold event per escrow id, at most one resolution
\* event (escrow_release or escrow_refund) per escrow id, and the resolution
\* event comes after the hold event of the same id.
C12_LedgerEvents ==
    \A id \in DOMAIN escrow_entries :
        /\ Cardinality(EventsAt(ledger, "escrow_hold", id)) = 1
        /\ Cardinality(ResolutionsAt(ledger, id)) <= 1
        /\ \A h \in EventsAt(ledger, "escrow_hold", id), r \in ResolutionsAt(ledger, id) :
             h < r

(***************************************************************************)
(* Further claims about hire().                                            *)
(***************************************************************************)

\* C13: a hire() whose request.budget is <= 0 is rejected with a validation
\* error and mutates no state: the tracker's spent amount, the escrow entries,
\* the ledger, the balances and the catalog (its job counters) are as before.
C13_Step ==
    (hire_calls' # hire_calls /\ lastHire'.request.budget <= 0) =>
        /\ lastHire'.raised
        /\ lastHire'.result = None
        /\ lastHire'.reserves = 0
        /\ UNCHANGED <<spent, escrow_entries, ledger, balances, listings>>

C13_ValidationRejects == [][C13_Step]_vars

\* A request without budget was rejected after an earlier hire had reserved
\* budget, held escrow and written ledger events.
C13_Witness ==
    /\ lastHire.raised
    /\ lastHire.request.budget <= 0
    /\ spent > 0
    /\ Len(ledger) >= 2
    /\ \E i \in 1..Len(listings) : listings[i].total_jobs > 0

\* C14: a hire() with a valid request (budget > 0) whose selected agent has
\* price 0 never returns budget_exceeded, whatever the tracker has spent: it
\* settles (completed or failed) with agreed_price 0 and leaves the tracker's
\* spent amount unchanged.
C14_Step ==
    (/\ hire_calls' # hire_calls
     /\ Selected(listings, lastHire'.request)
     /\ SelectedPrice(listings, lastHire'.request) = 0) =>
        /\ ~lastHire'.raised
        /\ lastHire'.result # None
        /\ lastHire'.result[1].status \in {"completed", "failed"}
        /\ lastHire'.result[1].agreed_price = 0
        /\ spent' = spent

C14_FreeAgentPasses == [][C14_Step]_vars

\* The free agent was hired and completed after the whole budget was spent.
C14_Witness ==
    /\ spent = TotalBudget
    /\ lastHire.result # None
    /\ lastHire.result[1].status = "completed"
    /\ lastHire.result[1].agent_name = "Free"
    /\ lastHire.result[1].agreed_price = 0
    /\ Len(hire_history) = 3

\* The amounts reserved by the first n hires of the history: the agreed price
\* of every hire that reached settlement (completed or failed).
RECURSIVE ReservedSum(_, _)
ReservedSum(history, n) ==
    IF n = 0 THEN 0
    ELSE ReservedSum(history, n - 1)
         + (IF history[n].status \in {"completed", "failed"}
            THEN history[n].agreed_price ELSE 0)

\* C15: budget_remaining of every result is the global remainder: the
\* tracker's total budget minus the sum of all amounts reserved up to and
\* including that hire; it is never negative, the latest result agrees with
\* the tracker, and a completed hire with a positive price reports strictly
\* less than the result before it.
C15_GlobalRemainder ==
    /\ \A n \in 1..Len(hire_history) :
         /\ hire_history[n].budget_remaining = TotalBudget - ReservedSum(hire_history, n)
         /\ hire_history[n].budget_remaining >= 0
         /\ (n > 1 /\ hire_history[n].status = "completed"
                   /\ hire_history[n].agreed_price > 0)
              => hire_history[n].budget_remaining < hire_history[n - 1].budget_remaining
    /\ hire_history # <<>> =>
         hire_history[Len(hire_history)].budget_remaining = TotalBudget - spent

\* Two paid hires completed one after the other, then one was refused.
C15_Witness ==
    /\ Len(hire_history) = 3
    /\ hire_history[1].status = "completed" /\ hire_history[1].agreed_price > 0
    /\ hire_history[2].status = "completed" /\ hire_history[2].agreed_price > 0
    /\ hire_history[3].status = "budget_exceeded"
    /\ hire_history[3].budget_remaining = 0

(***************************************************************************)
(* Further claims about the learning layer.                                *)
(***************************************************************************)

\* The columns of agent_scores a returned AgentScore is saved as.
StoredColumns(score) ==
    [composite_score |-> score.composite_score, success_rate |-> score.success_rate,
     avg_quality |-> score.avg_quality, reliability |-> score.reliability,
     cost_efficiency |-> score.cost_efficiency]

IsComputeScore(c) == c.op = "compute_score"

C17_Step ==
    lastLearn'.storage = "failed" =>
        /\ ~lastLearn'.raised
        /\ lastLearn'.op = "compute_score" =>
             /\ lastLearn'.ret
                  = Some(compute_score(feedback, agent_scores, lastLearn'.arg[1]).ret)
             /\ feedback' = feedback
        /\ lastLearn'.op = "record_task_feedback" =>
             /\ lastLearn'.ret[1].status = "recorded"
             /\ lastLearn'.ret[1].updated_score
                  = Some(compute_score(feedback', agent_scores,
                                       lastLearn'.arg[1][2]).ret.composite_score)

C17_StorageFailureTolerated == [][C17_Step]_vars

\* The stores that hold the same rows as rows: every order the rows can have
\* been written in.
WriteOrders(rows) ==
    {[i \in 1..Len(rows) |-> rows[f[i]]] : f \in SampleOrders(Len(rows))}

\* C18: compute_score is deterministic in the feedback store: a second
\* compute_score(agent_id) with no feedback write in between returns the same
\* AgentScore as the first, and a store that holds the same records, written
\* in whatever order, yields the same score.
C18_Deterministic ==
    /\ IsComputeScore(lastLearn) =>
         lastLearn.ret
           = Some(compute_score(feedback, agent_scores, lastLearn.arg[1]).ret)
    /\ \A agent_id \in Agents, rows \in WriteOrders(feedback) :
         compute_score(rows, agent_scores, agent_id).ret
           = compute_score(feedback, agent_scores, agent_id).ret

\* C19: get_agent_feedback(agent_id) returns exactly the stored records of
\* the agent, each once, most recent first (timestamps never increase along
\* the list), whatever the order the rows were written in; so a record whose
\* timestamp an upsert has changed stands where its new timestamp puts it.
C19_OrderedByTimestamp ==
    lastLearn.op = "get_agent_feedback" =>
        LET agent_id == lastLearn.arg[1]
            result == lastLearn.ret[1]
        IN /\ Len(result) = Cardinality(RowsOf(agent_id))
           /\ {result[i] : i \in 1..Len(result)} = {feedback[i] : i \in RowsOf(agent_id)}
           /\ \A i, j \in 1..Len(result) :
                i < j => result[i].timestamp >= result[j].timestamp

\* The record of task t1 was written before that of t2 with the same
\* timestamp, then rewritten with a later one: it is stored last and returned
\* first.
C19_Witness ==
    /\ lastLearn.op = "get_agent_feedback"
    /\ lastLearn.arg = Some("cheap")
    /\ Len(lastLearn.ret[1]) = 2
    /\ lastLearn.ret[1][1].task_id = "t1" /\ lastLearn.ret[1][1].timestamp = 3
    /\ lastLearn.ret[1][2].task_id = "t2"
    /\ feedback[Len(feedback)].task_id = "t1"
    /\ feedback[Len(feedback)].agent_id = "cheap"

\* The candidates the budget filter keeps: all of them without a budget,
\* otherwise those without feedback or with a mean cost within the budget.
Remaining(cands, budget) ==
    {cands[i] : i \in {j \in 1..Len(cands) :
                         budget = None \/ within_budget(feedback, cands[j], budget[1])}}

Composite(agent_id) == compute_score(feedback, agent_scores, agent_id).ret.composite_score

\* C20: with exploration_rate = 0, recommend_agent and explore_exploit never
\* explore, and the agent they return is one of the given candidates, remains
\* after the budget filter, and has the highest composite_score among the
\* candidates that remain after the budget filter.
C20_ExploitsBest ==
    (/\ lastLearn.op \in {"recommend_agent", "explore_exploit"}
     /\ lastLearn.rate = 0
     /\ lastLearn.ret # None) =>
        LET cands == lastLearn.arg[1]
            r == lastLearn.ret[1]
            remaining == Remaining(cands, lastLearn.budget)
        IN /\ ~r.is_exploration
           /\ \E i \in 1..Len(cands) : cands[i] = r.agent_id
           /\ r.agent_id \in remaining
           /\ \A c \in remaining : Composite(r.agent_id) >= Composite(c)

\* The candidate lists of two agents whose composite scores differ.
TwoUnequal ==
    {cands \in CandidateLists :
        Len(cands) = 2 /\ Composite(cands[1]) # Composite(cands[2])}

\* The agents recommend_agent(cands) can return when it explores: one for
\* every order the Beta samples can come in.
ExplorationPicks(cands) ==
    {recommend_agent(feedback, agent_scores, cands, None, TRUE, samples).ret[1].agent_id :
        samples \in SampleOrders(Len(cands))}

\* C21: with exploration_rate = 1 every recommend_agent call that returns a
\* recommendation is an exploration pick, and for two candidates of differing
\* composite score each of the two can be the one selected.
C21_ExploresBoth ==
    /\ (lastLearn.op = "recommend_agent" /\ lastLearn.rate = 100 /\ lastLearn.ret # None)
          => lastLearn.ret[1].is_exploration
    /\ \A cands \in TwoUnequal : ExplorationPicks(cands) = {cands[1], cands[2]}

\* An exploring recommend_agent has returned the lower-scored of two
\* candidates.
C21_Witness ==
    /\ lastLearn.op = "recommend_agent"
    /\ lastLearn.rate = 100
    /\ lastLearn.budget = None
    /\ lastLearn.arg[1] \in TwoUnequal
    /\ lastLearn.ret[1].is_exploration
    /\ \E i \in 1..2 : Composite(lastLearn.arg[1][i]) > Composite(lastLearn.ret[1].agent_id)

(***************************************************************************)
(* C22: selection picks the best candidate among those within the budget.  *)
(* Once the hiring decision of a demo run is taken, an approved candidate  *)
(* whose price is within the budget exists exactly when one is selected,   *)
(* and the selected one is approved, within the budget and has the highest *)
(* composite score among those.  With DesignStudio AI (the higher score)   *)
(* and PixelForge both candidates, a budget of 6 cents ends with           *)
(* PixelForge hired at 5 cents and a budget of 500 cents with              *)
(* DesignStudio AI hired at 15 cents.                                      *)
(***************************************************************************)
Decided == demo.pc \in {"execution", "payment", "done"}

Affordable ==
    {i \in 1..Len(demo.evaluations) :
        demo.evaluations[i].approved /\ demo.evaluations[i].price <= demo.config.budget}

Selectable(agent_name) ==
    \E i \in 1..Len(demo.evaluations) :
        demo.evaluations[i].agent_name = agent_name /\ demo.evaluations[i].approved

ScoreOf(agent_name) ==
    LET i == CHOOSE k \in 1..Len(demo.evaluations) : demo.evaluations[k].agent_name = agent_name
    IN demo.evaluations[i].composite_score

BothSelectable ==
    /\ Selectable("DesignStudio AI") /\ Selectable("PixelForge")
    /\ ScoreOf("DesignStudio AI") > ScoreOf("PixelForge")

C22_BestWithinBudget ==
    Decided =>
       /\ (demo.best # None) <=> (Affordable # {})
       /\ demo.best # None =>
            /\ \E i \in Affordable : demo.evaluations[i] = demo.best[1]
            /\ \A i \in Affordable :
                  demo.evaluations[i].composite_score <= demo.best[1].composite_score
       /\ (demo.pc = "done" /\ BothSelectable /\ demo.config.budget = 6) =>
            /\ demo.result[1].agent_hired = "PixelForge"
            /\ demo.result[1].price_paid = 5
            /\ demo.result[1].status = "completed"
       /\ (demo.pc = "done" /\ BothSelectable /\ demo.config.budget = 500) =>
            /\ demo.result[1].agent_hired = "DesignStudio AI"
            /\ demo.result[1].price_paid = 15
            /\ demo.result[1].status = "completed"

\* A finished run with a budget of 6 cents in which PixelForge was hired although
\* DesignStudio AI had the higher score.
C22_Witness ==
    /\ demo.pc = "done" /\ BothSelectable /\ demo.config.budget = 6
    /\ demo.result[1].agent_hired = "PixelForge"
    /\ demo.result[1].price_paid = 5

(***************************************************************************)
(* C23: when every matching candidate costs more than the budget, no agent *)
(* is hired.  A finished demo run in which every discovered agent costs    *)
(* more than the configured budget returns agent_hired "none", price paid  *)
(* 0, budget_remaining equal to the whole budget and, in every such run,   *)
(* the status no_suitable_agents; neither a Hiring nor a Payment step is   *)
(* recorded.                                                               *)
(***************************************************************************)
AllTooExpensive ==
    \A i \in 1..Len(demo.candidates) : demo.candidates[i].price_per_call > demo.config.budget

C23_NoAffordableAgent ==
    (demo.pc = "done" /\ AllTooExpensive) =>
       /\ demo.result[1].agent_hired = "none"
       /\ demo.result[1].price_paid = 0
       /\ demo.result[1].budget_allocated = demo.config.budget
       /\ demo.result[1].budget_remaining = demo.config.budget
       /\ demo.result[1].status = "no_suitable_agents"
       /\ demo.result[1].steps = <<"Discovery", "Evaluation">>

\* A finished run with a budget of 1 cent against DesignStudio AI (15) and PixelForge (5).
C23_Witness ==
    /\ demo.pc = "done" /\ demo.config.budget = 1
    /\ Len(demo.candidates) = 2
    /\ demo.candidates[1].price_per_call = 15 /\ demo.candidates[2].price_per_call = 5
    /\ demo.result[1].agent_hired = "none"

(***************************************************************************)
(* Claims about the registry.                                              *)
(***************************************************************************)

\* C24: with every listing registered with zero counters, after any sequence of
\* record_job_completion and increment_jobs calls each listing has
\* completed_jobs + failed_jobs <= total_jobs; a record_job_completion on a
\* listed id returns True, raises total_jobs by 1 and exactly one of
\* completed_jobs / failed_jobs by 1, and adds the earnings to total_earnings
\* only on success; on an id that is not listed it returns False and changes
\* nothing.
C24_Counters ==
    \A i \in 1..Len(listings) :
        listings[i].completed_jobs + listings[i].failed_jobs <= listings[i].total_jobs

C24_Step ==
    lastReg'.op = "record_job_completion" =>
        LET a == lastReg'.arg
            i == index_of(listings, a.agent_id)
        IN IF i = 0
           THEN lastReg'.ret = Some(FALSE) /\ listings' = listings
           ELSE /\ lastReg'.ret = Some(TRUE)
                /\ Len(listings') = Len(listings)
                /\ \A j \in 1..Len(listings) : j # i => listings'[j] = listings[j]
                /\ listings'[i].total_jobs = listings[i].total_jobs + 1
                /\ listings'[i].completed_jobs =
                      listings[i].completed_jobs + (IF a.success THEN 1 ELSE 0)
                /\ listings'[i].failed_jobs =
                      listings[i].failed_jobs + (IF a.success THEN 0 ELSE 1)
                /\ listings'[i].total_earnings =
                      listings[i].total_earnings + (IF a.success THEN a.earnings ELSE 0)

C24_JobCounters == []C24_Counters /\ [][C24_Step]_vars

\* A failed job has just been recorded for a listing that also has a job counted
\* by increment_jobs only.
C24_Witness ==
    /\ lastReg.op = "record_job_completion" /\ ~lastReg.arg.success
    /\ lastReg.ret = Some(TRUE)
    /\ \E i \in 1..Len(listings) :
         /\ listings[i].agent_id = lastReg.arg.agent_id
         /\ listings[i].failed_jobs = 1
         /\ listings[i].total_jobs = 2
         /\ listings[i].total_earnings = 0

\* C25: register_agent is an upsert by agent_id.  The registry never holds two
\* listings with one id; after register_agent(l) get_agent(l.agent_id) is l, and
\* count() is unchanged when the id was listed (one more when it was not), the
\* other listings being untouched; unregister_agent(id) returns True exactly
\* when the id was listed, and afterwards get_agent(id) is None.
C25_OnePerId ==
    \A i, j \in 1..Len(listings) : listings[i].agent_id = listings[j].agent_id => i = j

Others(regs, agent_id) == {regs[i] : i \in {k \in 1..Len(regs) : regs[k].agent_id # agent_id}}

C25_Step ==
    /\ lastReg'.op = "register_agent" =>
         LET l == lastReg'.ret[1]
         IN /\ get_agent(listings', l.agent_id) = Some(l)
            /\ listing_count(listings') =
                  listing_count(listings) + (IF get_agent(listings, l.agent_id) = None THEN 1 ELSE 0)
            /\ Others(listings', l.agent_id) = Others(listings, l.agent_id)
    /\ lastReg'.op = "unregister_agent" =>
         /\ lastReg'.ret = Some(get_agent(listings, lastReg'.arg.agent_id) # None)
         /\ get_agent(listings', lastReg'.arg.agent_id) = None
         /\ Others(listings', lastReg'.arg.agent_id) = Others(listings, lastReg'.arg.agent_id)

C25_Upsert == []C25_OnePerId /\ [][C25_Step]_vars

\* The listing of coder has just been registered again: it replaced the listing
\* of the start-up catalog and the registry still holds three listings.
C25_Witness ==
    /\ lastReg.op = "register_agent" /\ lastReg.arg.agent_id = "coder"
    /\ listing_count(listings) = 3
    /\ get_agent(listings, "coder") # None
    /\ get_agent(listings, "coder")[1].name = "Coder v2"

\* C26: match with non-empty required skills returns only registered listings
\* that match at least one required skill, have rating >= min_rating and price
\* <= max_price; each carries the score overlap/|required| + rating/100, the
\* result is in descending order of score and has at most top_n entries.
IsMatch == lastReg.op = "match"

C26_MatchResult ==
    (IsMatch /\ lastReg.arg.required_skills # <<>>) =>
        LET a == lastReg.arg
            res == lastReg.ret
        IN /\ Len(res) <= a.top_n
           /\ \A k \in 1..Len(res) :
                /\ \E i \in 1..Len(listings) : listings[i] = res[k].val
                /\ overlap(res[k].val, a.required_skills) >= 1
                /\ res[k].val.rating >= a.min_rating
                /\ a.max_price # None => res[k].val.price_per_unit <= a.max_price[1]
                /\ res[k].key = RoundDiv(overlap(res[k].val, a.required_skills) * 10000,
                                         Len(a.required_skills)) + res[k].val.rating
           /\ \A k \in 1..(Len(res) - 1) : res[k].key >= res[k + 1].key
           /\ \A i \in 1..Len(listings) :
                overlap(listings[i], a.required_skills) = 0 =>
                    \A k \in 1..Len(res) : res[k].val # listings[i]

\* A match for two skills returned two listings, the better one first, while a
\* listing with a higher rating and no matching skill was left out.
C26_Witness ==
    /\ IsMatch /\ Len(lastReg.arg.required_skills) = 2
    /\ Len(lastReg.ret) = 2
    /\ lastReg.ret[1].key > lastReg.ret[2].key
    /\ lastReg.ret[1].val.rating < lastReg.ret[2].val.rating
    /\ \E i \in 1..Len(listings) :
         /\ overlap(listings[i], lastReg.arg.required_skills) = 0
         /\ listings[i].rating >= lastReg.arg.min_rating

\* C27 (as stated): an empty required-skills list matches everything: match([])
\* returns every registered listing that passes the min_rating and max_price
\* filters, ordered by rating descending and cut to top_n, and a request of the
\* demo workflow with empty required_skills has every agent of the catalog as a
\* candidate.
Eligible(a) ==
    {i \in 1..Len(listings) :
        /\ listings[i].rating >= a.min_rating
        /\ a.max_price # None => listings[i].price_per_unit <= a.max_price[1]}

MatchEmptyReturnsAll ==
    (IsMatch /\ lastReg.arg.required_skills = <<>>) =>
        LET a == lastReg.arg
            res == lastReg.ret
            returned == {i \in Eligible(a) : \E k \in 1..Len(res) : res[k].val = listings[i]}
        IN /\ Len(res) = (IF Cardinality(Eligible(a)) < a.top_n
                          THEN Cardinality(Eligible(a)) ELSE a.top_n)
           /\ Cardinality(returned) = Len(res)
           /\ \A k \in 1..Len(res) : res[k].key = 10000 + res[k].val.rating
           /\ \A k \in 1..(Len(res) - 1) : res[k].val.rating >= res[k + 1].val.rating
           /\ \A i \in Eligible(a) \ returned, j \in returned :
                listings[i].rating <= listings[j].rating

Discovered == demo.pc \notin {"idle", "discovery"}

WithOutcome(rows, task_id, outcome) ==
    [k \in 1..Len(rows) |->
        IF rows[k].task_id = task_id THEN [rows[k] EXCEPT !.outcome = outcome] ELSE rows[k]]

CompositeOf(rows) == compute_score(rows, <<>>, "cheap").ret.composite_score

History == get_agent_feedback(feedback, "cheap")

C28_RecencyWeighting ==
    \A i, j \in 1..Len(History) :
        (i < j /\ History[i].outcome = "failure" /\ History[j].outcome = "failure") =>
            LET recent == WithOutcome(feedback, History[i].task_id, "success")
                old == WithOutcome(feedback, History[j].task_id, "success")
            IN /\ CompositeOf(recent) > CompositeOf(old)
               /\ CompositeOf(old) > CompositeOf(feedback)

\* The score of a mixed history of four records has been computed: failures at
\* the most recent and at the oldest position, a success in between.
C28_Witness ==
    /\ lastLearn.op = "compute_score" /\ lastLearn.arg = Some("cheap")
    /\ lastLearn.ret[1].task_count = 4
    /\ History[1].outcome = "failure" /\ History[4].outcome = "failure"
    /\ \E k \in {2, 3} : History[k].outcome = "success"
    /\ History[1].quality_score # History[4].quality_score

(***************************************************************************)
(* Claims about the recommendation's confidence interval.                  *)
(***************************************************************************)

IsRecommendation == lastLearn.op = "recommend_agent" /\ lastLearn.ret # None

IntervalWidth(ci) == ci.upper - ci.lower

RecordsOf(agent_id) == get_agent_feedback(feedback, agent_id)

\* 0 <= confidence_lower <= expected_score <= confidence_upper <= 1, and the
\* interval of an agent without history is exactly [0, 1].
IntervalBounds ==
    IsRecommendation =>
        LET rec == lastLearn.ret[1]
        IN /\ 0 <= rec.confidence_lower
           /\ rec.confidence_lower <= rec.expected_score
           /\ rec.expected_score <= rec.confidence_upper
           /\ rec.confidence_upper <= 10000
           /\ RecordsOf(rec.agent_id) = <<>> =>
                rec.confidence_lower = 0 /\ rec.confidence_upper = 10000

\* The recommendation the same call gives on the history without its most
\* recent record.
RecommendationBefore ==
    recommend_agent(SubSeq(feedback, 1, Len(feedback) - 1), <<>>, <<"cheap">>,
                    None, FALSE, <<>>).ret[1]

C30_NeutralPrior ==
    lastLearn.op = "compute_score" =>
        LET agent_id == lastLearn.arg[1]
            score == lastLearn.ret[1]
            n == Cardinality({k \in 1..Len(feedback) : feedback[k].agent_id = agent_id})
        IN /\ score.agent_id = agent_id
           /\ score.task_count = n
           /\ n = 0 => /\ score.composite_score = 5000
                       /\ score.confidence = 0
                       /\ score.task_count = 0

\* A score was computed for an agent without feedback while other agents have
\* records.
C30_Witness ==
    /\ lastLearn.op = "compute_score" /\ lastLearn.arg = Some("new")
    /\ lastLearn.ret[1].composite_score = 5000 /\ lastLearn.ret[1].task_count = 0
    /\ Len(feedback) = 3

\* ---------------------------------------------------------------------------
\* Verification of a payment proof
\* ---------------------------------------------------------------------------

\* The step is a call of PaymentManager.verify_payment.
IsVerifyStep == clock' # clock /\ lastCall'.op = "verify_payment"

\* The proof is one the gate accepts: the expected payee and at least the price.
Acceptable(proof) == proof.payee = GatePayTo /\ proof.amount >= GatePrice

\* The balance of every agent but agent_id is the same in bal and changed.
SameButFor(bal, changed, agent_id) ==
    \A a \in (DOMAIN bal \cup DOMAIN changed) \ {agent_id} :
        get_balance(changed, a) = get_balance(bal, a)

\* C31: PaymentManager.verify_payment always appends exactly one ledger
\* entry, payment_verified when the proof is accepted and payment_rejected
\* otherwise; a rejected proof (wrong payee or amount below the price) leaves
\* every balance unchanged and is not added to the payment history of the
\* gate, and an accepted proof credits the payee of the proof by exactly the
\* amount of the proof.
C31_Step ==
    IsVerifyStep =>
      LET proof == proofs'[lastCall'.arg]
          ok == lastCall'.ret = Some(TRUE)
          last == ledger'[Len(ledger')]
      IN /\ Len(ledger') = Len(ledger) + 1
         /\ SubSeq(ledger', 1, Len(ledger)) = ledger
         /\ last.event_type = IF ok THEN "payment_verified" ELSE "payment_rejected"
         /\ last.payment_id = proof.payment_id
         /\ ok <=> Acceptable(proof)
         /\ ~ok => /\ \A a \in DOMAIN balances \cup DOMAIN balances' :
                        get_balance(balances', a) = get_balance(balances, a)
                   /\ gate_payments' = gate_payments
         /\ ok => /\ get_balance(balances', proof.payee)
                       = get_balance(balances, proof.payee) + proof.amount
                  /\ SameButFor(balances, balances', proof.payee)

C31_VerifyPayment == [][C31_Step]_vars

\* A proof has been rejected after another one was accepted and credited.
C31_Witness ==
    /\ lastCall.op = "verify_payment" /\ lastCall.ret = Some(FALSE)
    /\ ledger # <<>> /\ ledger[Len(ledger)].event_type = "payment_rejected"
    /\ \E i \in 1..Len(ledger) : ledger[i].event_type = "payment_verified"
    /\ get_balance(balances, GatePayTo) > 0

\* ---------------------------------------------------------------------------
\* Conservation of escrow funds
\* ---------------------------------------------------------------------------

\* The refunded counterpart of total_held and total_released.
total_refunded(entries) == sum_status(entries, "refunded", DOMAIN entries)

\* The sum of the amounts of all hold_escrow calls made so far.
RECURSIVE EverHeld(_)
EverHeld(led) ==
    IF led = <<>> THEN 0
    ELSE (IF Head(led).event_type = "escrow_hold" THEN Head(led).amount ELSE 0)
         + EverHeld(Tail(led))

\* The sum of all balances.
RECURSIVE SumBalances(_, _)
SumBalances(bal, agents) ==
    IF agents = {} THEN 0
    ELSE LET a == CHOOSE x \in agents : TRUE
         IN bal[a] + SumBalances(bal, agents \ {a})

\* Every agent that is the payer or the payee of an entry or has a balance.
Parties ==
    DOMAIN balances
    \cup {escrow_entries[id].payer : id \in DOMAIN escrow_entries}
    \cup {escrow_entries[id].payee : id \in DOMAIN escrow_entries}

\* The sum of the entries with this status in which the agent has this role.
RoleSum(entries, status, role, agent) ==
    SumAmounts(entries, {id \in DOMAIN entries :
                           entries[id].status = status /\ entries[id][role] = agent})

C32_Conserved ==
    /\ total_held(escrow_entries) + total_released(escrow_entries)
         + total_refunded(escrow_entries) = EverHeld(ledger)
    /\ SumBalances(balances, DOMAIN balances)
         = total_released(escrow_entries) + total_refunded(escrow_entries)
    /\ \A a \in Parties :
         get_balance(balances, a)
           = RoleSum(escrow_entries, "released", "payee", a)
             + RoleSum(escrow_entries, "refunded", "payer", a)

C32_Step ==
    (clock' # clock /\ lastCall'.op = "hold_escrow") => balances' = balances

\* C32: escrow funds are conserved: after any sequence of hold_escrow,
\* release_escrow and refund_escrow, total held + total released + total
\* refunded equals the sum of all amounts ever held, the sum of all balances
\* equals total released + total refunded, and the balance of each agent is
\* the sum of the released entries it is the payee of (plus, for an agent that
\* is also a payer, the refunded entries it is the payer of); hold_escrow
\* itself changes no balance.
C32_EscrowConservation == []C32_Conserved /\ [][C32_Step]_vars

\* One entry is held, one was released to its payee, and a later hold has left
\* the balance of that payee as it was.
C32_Witness ==
    /\ total_held(escrow_entries) > 0 /\ total_released(escrow_entries) > 0
    /\ lastCall.op = "hold_escrow"
    /\ \E id \in DOMAIN escrow_entries :
         /\ escrow_entries[id].status = "released"
         /\ get_balance(balances, escrow_entries[id].payee) = escrow_entries[id].amount

\* ---------------------------------------------------------------------------
\* Agents that are offline
\* ---------------------------------------------------------------------------

\* The agents of the registry that are offline.
OfflineAgents ==
    {listings[i].agent_id : i \in {k \in 1..Len(listings) :
                                     listings[k].availability = "offline"}}

\* C33: an agent soft-removed by setting its availability to offline is no
\* longer a hire candidate: SkillMatcher.match never returns a listing whose
\* availability is offline.
C33_OfflineNeverMatched ==
    lastReg.op = "match" =>
      \A i \in 1..Len(lastReg.ret) :
         /\ lastReg.ret[i].val.availability # "offline"
         /\ lastReg.ret[i].val.agent_id \notin OfflineAgents

\* ---------------------------------------------------------------------------
\* Per-task budgets of the payment hub
\* ---------------------------------------------------------------------------

\* The last call was a payment, through either server.
IsHubPayment == hub.last.op \in {"tool_pay_agent", "handle_pay_agent"}

\* The last payment named a task without budget or asked for more than was
\* left of the budget.
BeyondBudget ==
    \/ hub.last.budget = None
    \/ hub.last.amount > remaining_of(hub.last.budget[1])

\* The last payment is the newest transaction of the ledger.
Recorded ==
    /\ hub.transactions # <<>>
    /\ hub.last.ret = "completed"

\* C34: per-task budgets of the payment hub are never overspent: after any
\* sequence of allocate_budget and pay_agent calls, through the payment-hub
\* tool and through the handler of the standalone server alike, the spent
\* amount of every task is at most its allocated amount, and a payment that
\* would exceed the remaining budget (or names a task without budget) records
\* no transaction.
C34_NeverOverspent ==
    /\ \A t \in DOMAIN hub.budgets : hub.budgets[t].spent <= hub.budgets[t].allocated
    /\ (IsHubPayment /\ BeyondBudget) => ~Recorded

\* ---------------------------------------------------------------------------
\* The data model of the feedback store
\* ---------------------------------------------------------------------------

\* The record satisfies the FeedbackRecord data model.
WellFormed(rec) ==
    /\ rec.outcome \in {"success", "partial", "failure"}
    /\ rec.quality_score \in 0..100

\* Every component of the score lies in [0, 1].
ComponentsInRange(score) ==
    \A c \in {"composite_score", "success_rate", "avg_quality", "reliability",
              "cost_efficiency", "confidence"} : score[c] \in 0..10000

\* C35: every record held by the feedback store satisfies the FeedbackRecord
\* data model, outcome in {success, partial, failure} and quality_score in
\* [0, 1], whichever entry point wrote it (record_feedback directly or the
\* record_task_feedback tool); consequently every AgentScore component
\* computed from the store lies in [0, 1].
C35_StoreWellFormed ==
    /\ \A i \in 1..Len(feedback) : WellFormed(feedback[i])
    /\ IsComputeScore(lastLearn) => ComponentsInRange(lastLearn.ret[1])

\* ---------------------------------------------------------------------------
\* A proof submitted again
\* ---------------------------------------------------------------------------

\* The step is a verify_payment call with a proof that was verified before.
IsReverifyStep ==
    /\ IsVerifyStep
    /\ lastCall'.arg \in DOMAIN proofs
    /\ proofs[lastCall'.arg].verified

C36_Step ==
    IsReverifyStep =>
      LET proof == proofs[lastCall'.arg]
      IN /\ get_balance(balances', proof.payee) = get_balance(balances, proof.payee)
         /\ total_collected(GateState(proofs', gate_payments')) = total_collected(CurGate)

\* C36: a payment proof is credited at most once: calling
\* PaymentManager.verify_payment again with a proof that was already verified
\* (same payment_id) does not raise the balance of the payee or the
\* total_collected of the gate a second time.
C36_CreditedAtMostOnce == [][C36_Step]_vars

\* ---------------------------------------------------------------------------
\* compute_score while feedback is written
\* ---------------------------------------------------------------------------

\* A compute_score call has returned.
ScoreReturned == scoring.pc = "done"

\* C37: score computation is snapshot-then-compute: compute_score reads the
\* feedback of the agent exactly once, so when record_feedback calls
\* interleave with it the reader does not fail and the returned AgentScore
\* (all components and task_count) equals the score of one single store state
\* that existed between the start and the end of the call.
C37_SnapshotThenCompute ==
    ScoreReturned =>
      /\ scoring.ret # None
      /\ \E k \in 1..Len(scoring.seen) :
           scoring.ret[1]
             = compute_score(scoring.seen[k], agent_scores, scoring.agent_id).ret

\* A call has returned the score of the store it started on although two
\* writes arrived while it ran, one of them replacing a record it had read.
C37_Witness ==
    /\ ScoreReturned
    /\ Len(scoring.seen) = 3
    /\ scoring.ret[1].task_count > 0
    /\ scoring.ret[1] = compute_score(scoring.seen[1], agent_scores, scoring.agent_id).ret
    /\ scoring.ret[1] # compute_score(scoring.seen[2], agent_scores, scoring.agent_id).ret
    /\ scoring.ret[1] # compute_score(scoring.seen[3], agent_scores, scoring.agent_id).ret

====
